---------------------------- MODULE Spec2Model ----------------------------
(***************************************************************************)
(* AuDiX admin control plane: the flat lifecycle store (flat_requests,     *)
(* flats, setup_codes), the operations of admin_db_pg.js over it, and the  *)
(* HTTP routes of the two server files that call them; the sessions and   *)
(* requireAdmin; the metrics, the WebSocket subscribers and the snapshots  *)
(* broadcast to them; the proxy of the user server's live snapshot.        *)
(*                                                                         *)
(* Each route handler is an async function: it runs to its next `await`    *)
(* and is resumed when the awaited store command has executed.  A call is  *)
(* therefore a small process (calls[c]) whose pc names the store command   *)
(* it is waiting for; every store command executes atomically, and the     *)
(* commands of different calls interleave freely.  A handler's entry       *)
(* (parameter parsing, Date.now()) touches nothing shared, so it is one    *)
(* step with the first store command the handler issues.                   *)
(***************************************************************************)
EXTENDS Integers, Sequences, FiniteSets, TLC

(***************************************************************************)
(* Bounds of the model.                                                    *)
(***************************************************************************)
MaxRequests == 2   \* flat_requests rows created
MaxCodes == 2      \* setup_codes rows created
MaxTraffic == 2    \* requests through the metrics middleware

(* the readings Date.now() takes, in ms since the process started *)
Instants == {0, 1}

(* the call slots: a slot holds one HTTP call suspended at an await *)
Clients == {"c1", "c2"}

(***************************************************************************)
(* Values.  A nullable SQL column holds NULL (the empty sequence) or       *)
(* Some(v).  A string that the code inspects character by character        *)
(* (a flat_id) is a sequence of one-character strings.                     *)
(***************************************************************************)
NULL == <<>>
Some(v) == <<v>>

(* :id path parameters as they arrive, and what Number() makes of them:    *)
(* NaN is NULL here.                                                       *)
IdParams == {"1", "2", "abc"}
Number(s) ==
  CASE s = "" -> Some(0)
    [] s = "1" -> Some(1)
    [] s = "2" -> Some(2)
    [] s = "3" -> Some(3)
    [] s = "4" -> Some(4)
    [] OTHER -> NULL
NumberIsFinite(n) == n # NULL

(* String(x).trim().toUpperCase() on a sequence of characters *)
IsSpace(ch) == ch \in {" ", "\t", "\n"}
RECURSIVE TrimStart(_)
TrimStart(s) ==
  IF s # <<>> /\ IsSpace(Head(s)) THEN TrimStart(Tail(s)) ELSE s
RECURSIVE TrimEnd(_)
TrimEnd(s) ==
  IF s # <<>> /\ IsSpace(s[Len(s)]) THEN TrimEnd(SubSeq(s, 1, Len(s) - 1)) ELSE s
(* a plausible slip: trimStart() for trim() *)
trimStart(s) == TrimStart(s)
trim(s) == TrimEnd(TrimStart(s))
UpperChar(ch) ==
  CASE ch = "a" -> "A"
    [] ch = "b" -> "B"
    [] OTHER -> ch
toUpperCase(s) == [i \in 1..Len(s) |-> UpperChar(s[i])]

(* flat ids as the routes receive them / as the store holds them *)
FlatIdParams == { <<" ", "a", "1">>, <<"B", "2">> }
FlatIds == { toUpperCase(trim(p)) : p \in FlatIdParams }
(* the same flat ids as a client may spell them *)
FlatIdSpellings == { <<" ", "a", "1">>, <<"A", "1", "\t">>, <<"b", "2">> }
Names == { "Jane" }
Notes == { "" }

VARIABLES
  flat_requests,      \* table flat_requests: id -> row
  flat_requests_seq,  \* its BIGSERIAL: the next id
  flats,              \* table flats: flat_id -> row
  setup_codes,        \* table setup_codes: id -> row
  setup_codes_seq,    \* its BIGSERIAL: the next id
  clock,              \* Date.now()
  calls,              \* the HTTP calls suspended at an await, per call slot
  session,            \* the admin browser's session record (req.session)
  sent,               \* what the last step produced: the operation's return value
                      \* (out) and the HTTP response written (status, body)
  metrics,            \* the metrics object of the process
  wsClients,          \* the Set of subscribed WebSockets
  readyState,         \* per peer: the state of its socket
  wire,               \* what the last step wrote to the peers' sockets, in order
  pending,            \* the requests past the metrics middleware whose response
                      \* has neither finished nor been closed
  recorded,           \* history: the Date.now() reading of every request that has
                      \* passed the metrics middleware since the process started
  monitor             \* the monitor panel of the dashboard page in the browser:
                      \* the alerts, the bars and the status banner it shows

vars == <<flat_requests, flat_requests_seq, flats, setup_codes, setup_codes_seq, clock,
          calls, session, sent, metrics, wsClients, readyState, wire, pending,
          recorded, monitor>>
store == <<flat_requests, flat_requests_seq, flats, setup_codes, setup_codes_seq>>
live == <<metrics, wsClients, readyState, wire, pending, recorded, monitor>>


(***************************************************************************)
(* Store commands (the SQL statements), each a function of the table.      *)
(***************************************************************************)

(* a plausible slip: a request for a flat_id that already has one is dropped *)
InsertFlatRequestDedup(fr, seq, flat_id, name, note, now) ==
  IF \E i \in DOMAIN fr : fr[i].flat_id = flat_id
    THEN fr
    ELSE [i \in DOMAIN fr \cup {seq} |->
            IF i = seq
              THEN [flat_id |-> flat_id, name |-> name, note |-> note, status |-> "PENDING",
                    created_at |-> now, updated_at |-> now]
              ELSE fr[i]]

(* INSERT INTO flat_requests (...) VALUES ($1,$2,$3,'PENDING',$4,$4) RETURNING id *)
InsertFlatRequest(fr, seq, flat_id, name, note, now) ==
  [i \in DOMAIN fr \cup {seq} |->
     IF i = seq
       THEN [flat_id |-> flat_id, name |-> name, note |-> note, status |-> "PENDING",
             created_at |-> now, updated_at |-> now]
       ELSE fr[i]]

(* a plausible slip: WHERE id <= $1 *)
SelectRequestAtMost(fr, id) ==
  IF \E i \in DOMAIN fr : i <= id
    THEN Some(fr[CHOOSE i \in DOMAIN fr : i <= id /\ \A j \in DOMAIN fr : j <= id => i <= j])
    ELSE NULL

(* SELECT * FROM flat_requests WHERE id = $1  -- rows[0], or NULL *)
SelectRequest(fr, id) == IF id \in DOMAIN fr THEN Some(fr[id]) ELSE NULL

(* UPDATE flat_requests SET status=..., updated_at=$2 WHERE id=$1 *)
UpdateRequestStatus(fr, id, status, now) ==
  [i \in DOMAIN fr |->
     IF i = id THEN [fr[i] EXCEPT !.status = status, !.updated_at = now] ELSE fr[i]]

(* a plausible slip: strike_count INT NOT NULL DEFAULT 1 *)
NewFlatRowStruck(now) ==
  [status |-> "ACTIVE", pin_hash |-> NULL, password_hash |-> NULL, strike_count |-> 1,
   ban_until |-> NULL, requires_admin_revoke |-> FALSE, created_at |-> now,
   updated_at |-> now, last_login_at |-> NULL]

(* the row INSERT INTO flats (flat_id, status, created_at, updated_at) makes: *)
(* the other columns take the defaults of CREATE TABLE flats                 *)
NewFlatRow(now) ==
  [status |-> "ACTIVE", pin_hash |-> NULL, password_hash |-> NULL, strike_count |-> 0,
   ban_until |-> NULL, requires_admin_revoke |-> FALSE, created_at |-> now,
   updated_at |-> now, last_login_at |-> NULL]

(* a plausible slip: UPDATE flats SET status='ACTIVE' in place of the upsert *)
UpsertFlatUpdateOnly(fl, flat_id, now) ==
  [f \in DOMAIN fl |->
     IF f = flat_id THEN [fl[f] EXCEPT !.status = "ACTIVE", !.updated_at = now] ELSE fl[f]]

(* a plausible slip: ON CONFLICT (flat_id) DO NOTHING *)
UpsertFlatDoNothing(fl, flat_id, now) ==
  [f \in DOMAIN fl \cup {flat_id} |-> IF f \in DOMAIN fl THEN fl[f] ELSE NewFlatRow(now)]

(* a plausible slip: INSERT OR REPLACE, which rewrites the whole row *)
UpsertFlatReplace(fl, flat_id, now) ==
  [f \in DOMAIN fl \cup {flat_id} |-> IF f # flat_id THEN fl[f] ELSE NewFlatRow(now)]

(* INSERT INTO flats ... ON CONFLICT (flat_id) DO UPDATE SET status='ACTIVE', updated_at=$2 *)
UpsertFlat(fl, flat_id, now) ==
  [f \in DOMAIN fl \cup {flat_id} |->
     IF f # flat_id THEN fl[f]
     ELSE IF flat_id \in DOMAIN fl
       THEN [fl[f] EXCEPT !.status = "ACTIVE", !.updated_at = now]
       ELSE NewFlatRow(now)]

(* a plausible slip: SELECT $1 AS flat_id, which always yields a row *)
SelectFlatEcho(fl, flat_id) == Some(flat_id)

(* SELECT flat_id FROM flats WHERE flat_id = $1  -- rows[0], or NULL *)
SelectFlat(fl, flat_id) == IF flat_id \in DOMAIN fl THEN Some(flat_id) ELSE NULL

(* a plausible slip: a new code replaces the flat's earlier codes *)
InsertSetupCodeSuperseding(sc, seq, flat_id, code_hash, expires_at, now) ==
  [i \in {j \in DOMAIN sc : sc[j].flat_id # flat_id} \cup {seq} |->
     IF i = seq
       THEN [flat_id |-> flat_id, code_hash |-> code_hash, expires_at |-> expires_at,
             used_at |-> NULL, created_at |-> now]
       ELSE sc[i]]

(* INSERT INTO setup_codes (flat_id, code_hash, expires_at, created_at) VALUES ($1,$2,$3,$4) *)
InsertSetupCode(sc, seq, flat_id, code_hash, expires_at, now) ==
  [i \in DOMAIN sc \cup {seq} |->
     IF i = seq
       THEN [flat_id |-> flat_id, code_hash |-> code_hash, expires_at |-> expires_at,
             used_at |-> NULL, created_at |-> now]
       ELSE sc[i]]

(* a plausible slip: the wrong credential column is cleared *)
UpdateFlatClearPassword(fl, flat_id, now) ==
  [f \in DOMAIN fl |->
     IF f = flat_id THEN [fl[f] EXCEPT !.password_hash = NULL, !.updated_at = now] ELSE fl[f]]

(* UPDATE flats SET pin_hash = NULL, updated_at = $2 WHERE flat_id = $1 *)
UpdateFlatClearPin(fl, flat_id, now) ==
  [f \in DOMAIN fl |->
     IF f = flat_id THEN [fl[f] EXCEPT !.pin_hash = NULL, !.updated_at = now] ELSE fl[f]]

(* a plausible slip: the ban is lifted and the admin-revoke flag left standing *)
UpdateFlatRevokeBanOnly(fl, flat_id, now) ==
  [f \in DOMAIN fl |->
     IF f = flat_id THEN [fl[f] EXCEPT !.ban_until = NULL, !.updated_at = now] ELSE fl[f]]

(* UPDATE flats SET ban_until = NULL, requires_admin_revoke = FALSE, updated_at = $2 WHERE flat_id = $1 *)
UpdateFlatRevokeBan(fl, flat_id, now) ==
  [f \in DOMAIN fl |->
     IF f = flat_id
       THEN [fl[f] EXCEPT !.ban_until = NULL, !.requires_admin_revoke = FALSE,
                          !.updated_at = now]
       ELSE fl[f]]

(* a plausible slip: re-enabling or disabling a flat also clears its strikes *)
UpdateFlatStatusClearingStrikes(fl, flat_id, disabled, now) ==
  [f \in DOMAIN fl |->
     IF f = flat_id
       THEN [fl[f] EXCEPT !.status = IF disabled THEN "DISABLED" ELSE "ACTIVE",
                          !.strike_count = 0, !.updated_at = now]
       ELSE fl[f]]

(* a plausible slip: the two arms of `disabled ? "DISABLED" : "ACTIVE"` swapped *)
UpdateFlatStatusInverted(fl, flat_id, disabled, now) ==
  [f \in DOMAIN fl |->
     IF f = flat_id
       THEN [fl[f] EXCEPT !.status = IF disabled THEN "ACTIVE" ELSE "DISABLED",
                          !.updated_at = now]
       ELSE fl[f]]

(* UPDATE flats SET status = $2, updated_at = $3 WHERE flat_id = $1 *)
UpdateFlatStatus(fl, flat_id, disabled, now) ==
  [f \in DOMAIN fl |->
     IF f = flat_id
       THEN [fl[f] EXCEPT !.status = IF disabled THEN "DISABLED" ELSE "ACTIVE",
                          !.updated_at = now]
       ELSE fl[f]]


(***************************************************************************)
(* generateHumanCode and bcrypt.hash.  r is the outcome of the eight       *)
(* Math.floor(Math.random() * alphabet.length) draws, as 1-based indices.  *)
(***************************************************************************)
letters == <<"A","B","C","D","E","F","G","H","J","K","L","M",
             "N","P","Q","R","S","T","U","V","W","X","Y","Z">>
digits == <<"2","3","4","5","6","7","8","9">>
slice(s, from, to) == SubSeq(s, from + 1, IF to < Len(s) THEN to ELSE Len(s))
(* a plausible slip: slice(0, len - 1) *)
generateHumanCodeShort(len, r) ==
  LET a == [i \in 1..4 |-> letters[r[i]]]
      b == [i \in 1..4 |-> digits[r[4 + i]]]
  IN slice(a \o <<"-">> \o b, 0, len - 1)

generateHumanCode(len, r) ==
  LET a == [i \in 1..4 |-> letters[r[i]]]
      b == [i \in 1..4 |-> digits[r[4 + i]]]
  IN slice(a \o <<"-">> \o b, 0, len + 1)

(* the random outcomes the model draws from *)
RandomDraws == { <<1, 2, 3, 4, 1, 2, 3, 4>>, <<24, 23, 22, 21, 8, 7, 6, 5>> }
Salts == { "s1" }

(* a plausible slip: the code is stored as it is *)
bcrypt_skipped(code, rounds, salt) ==
  [alg |-> "none", cost |-> 0, salt |-> salt, digest |-> code]

(* bcrypt.hash(code, rounds): a salted one-way image of the code; digest   *)
(* stands for the image of (salt, code), from which the code is not read.  *)
bcrypt_hash(code, rounds, salt) ==
  [alg |-> "bcrypt", cost |-> rounds, salt |-> salt, digest |-> <<salt, code>>]

(***************************************************************************)
(* HTTP calls.  awaited tells whether the route awaits the admin_db_pg     *)
(* operation (part_000) or drops its promise (src/server.js).  What a      *)
(* step produces names the operation and the parsed parameters; out is     *)
(* NoOut when no operation returned in the step, status is 0 when no       *)
(* response was written.  out is a record throughout: an operation that    *)
(* returns a bare id or a bare array of rows has it under id or rows.      *)
(***************************************************************************)
NoOut == [ok |-> "none"]
NoBody == [json |-> ""]
PromiseJson == [json |-> "{}"]   \* JSON.stringify of a Promise

Produced(op, id, flat_id, out, status, body) ==
  [op |-> op, id |-> id, flat_id |-> flat_id, out |-> out, status |-> status, body |-> body]
Nothing == Produced("none", 0, <<>>, NoOut, 0, NoBody)
BadId(op) == Produced(op, 0, <<>>, NoOut, 400, [ok |-> FALSE, error |-> "bad id"])

IdleCall ==
  [op |-> "none", pc |-> "idle", awaited |-> TRUE, now |-> 0, id |-> 0, flat_id |-> <<>>,
   ttlMinutes |-> 0, disabled |-> FALSE, code |-> <<>>]

Free(c) == calls[c].pc = "idle"
Suspend(c, call) == calls' = [calls EXCEPT ![c] = call]
Return(c) == calls' = [calls EXCEPT ![c] = IdleCall]

(***************************************************************************)
(* Sessions and requireAdmin.  express-session keeps one record per        *)
(* cookie; the model follows the admin browser's record (cookie "sid").    *)
(* A request that carries another cookie, or none, gets a fresh record     *)
(* without isAdmin.  req.path is the sequence of its segments.             *)
(***************************************************************************)
NoSession == [isAdmin |-> FALSE]
SessionCookie == "sid"
Cookies == {"sid", "none"}
req_session(cookie) == IF cookie = SessionCookie THEN session ELSE NoSession

startsWith(path, prefix) ==
  Len(path) >= Len(prefix) /\ SubSeq(path, 1, Len(prefix)) = prefix

Unauthorized == [ok |-> FALSE, error |-> "UNAUTHORIZED"]
Redirect(to) == [location |-> to]

(* what requireAdmin answers when it does not call next() *)
Denied(path) ==
  IF startsWith(path, <<"admin", "api">>)
    THEN Produced("requireAdmin", 0, <<>>, NoOut, 401, Unauthorized)
    ELSE Produced("requireAdmin", 0, <<>>, NoOut, 302, Redirect("/admin/login"))

(* a plausible slip: `!== false` for `=== true`, which a fresh record      *)
(* (isAdmin undefined) passes                                              *)
requireAdminLax(cookie, path, next) ==
  IF req_session(cookie).isAdmin # FALSE \/ cookie # SessionCookie
    THEN next
    ELSE /\ sent' = Denied(path)
         /\ UNCHANGED <<store, clock, calls, session>>

(* next is the route handler, as an action *)
requireAdmin(cookie, path, next) ==
  IF req_session(cookie).isAdmin = TRUE
    THEN next
    ELSE /\ sent' = Denied(path)
         /\ UNCHANGED <<store, clock, calls, session>>

(* POST /admin/login: req.body.password as it arrives *)
ADMIN_PASSWORD == "secret"
Passwords == {"absent", "secret", "guess", "Secret"}

(* a plausible slip: the comparison dropped, any string accepted *)
LoginAnyString(password) ==
  /\ IF password = "absent"
       THEN /\ sent' = Produced("login", 0, <<>>, NoOut, 400, [text |-> "Bad request"])
            /\ UNCHANGED session
       ELSE /\ session' = [session EXCEPT !.isAdmin = TRUE]
            /\ sent' = Produced("login", 0, <<>>, NoOut, 302, Redirect("/admin"))
  /\ UNCHANGED <<store, clock, calls>>

Login(password) ==
  /\ IF password = "absent"
       THEN /\ sent' = Produced("login", 0, <<>>, NoOut, 400, [text |-> "Bad request"])
            /\ UNCHANGED session
       ELSE IF password # ADMIN_PASSWORD
         THEN /\ sent' = Produced("login", 0, <<>>, NoOut, 401, [text |-> "Invalid password"])
              /\ UNCHANGED session
         ELSE /\ session' = [session EXCEPT !.isAdmin = TRUE]
              /\ sent' = Produced("login", 0, <<>>, NoOut, 302, Redirect("/admin"))
  /\ UNCHANGED <<store, clock, calls>>

(* a plausible slip: the redirect without the destroy *)
LogoutRedirectOnly ==
  /\ sent' = Produced("logout", 0, <<>>, NoOut, 302, Redirect("/admin/login"))
  /\ UNCHANGED <<store, clock, calls, session>>

(* POST /admin/logout: req.session.destroy *)
Logout ==
  /\ session' = NoSession
  /\ sent' = Produced("logout", 0, <<>>, NoOut, 302, Redirect("/admin/login"))
  /\ UNCHANGED <<store, clock, calls>>

(* GET /admin: the dashboard page *)
Dashboard ==
  /\ sent' = Produced("dashboard", 0, <<>>, NoOut, 200, [file |-> "admin-dashboard.html"])
  /\ UNCHANGED <<store, clock, calls, session>>

(* the paths the routes are mounted at *)
ApiPath(tail) == <<"admin", "api">> \o tail

(***************************************************************************)
(* POST /admin/api/requests  +  adminCreateFlatRequest                     *)
(***************************************************************************)
CreateRequest(flat_id, name, note) ==
  /\ IF flat_id = <<>> \/ name = ""
       THEN /\ sent' = Produced("createRequest", 0, <<>>, NoOut, 400,
                                [ok |-> FALSE, error |-> "flat_id and name required"])
            /\ UNCHANGED store
       ELSE /\ flat_requests_seq <= MaxRequests
            /\ flat_requests' = InsertFlatRequest(flat_requests, flat_requests_seq,
                                                  toUpperCase(trim(flat_id)), name, note, clock)
            /\ flat_requests_seq' = flat_requests_seq + 1
            /\ sent' = Produced("createRequest", flat_requests_seq, toUpperCase(trim(flat_id)),
                                [id |-> flat_requests_seq], 200,
                                [ok |-> TRUE, id |-> flat_requests_seq])
            /\ UNCHANGED <<flats, setup_codes, setup_codes_seq>>
  /\ UNCHANGED <<clock, session, calls>>

(***************************************************************************)
(* POST /admin/api/requests/:id/approve  +  adminApproveRequest            *)
(***************************************************************************)
RequestNotFound == [ok |-> FALSE, error |-> "REQUEST_NOT_FOUND"]

ApproveBegin(c, param, awaited) ==
  LET id == Number(param)
      req == SelectRequest(flat_requests, id[1])
  IN
  /\ Free(c)
  /\ IF ~NumberIsFinite(id)
       THEN /\ sent' = BadId("approveRequest")
            /\ UNCHANGED calls
       ELSE IF req = NULL
         THEN /\ sent' = Produced("approveRequest", id[1], <<>>, RequestNotFound, 404,
                                  IF awaited THEN RequestNotFound ELSE PromiseJson)
              /\ UNCHANGED calls
         ELSE /\ sent' = IF awaited THEN Nothing
                         ELSE Produced("approveRequest", id[1], <<>>, NoOut, 404, PromiseJson)
              /\ Suspend(c, [IdleCall EXCEPT !.op = "approveRequest", !.pc = "approve_upsert",
                                             !.awaited = awaited, !.now = clock, !.id = id[1],
                                             !.flat_id = req[1].flat_id])
  /\ UNCHANGED <<store, clock, session>>

(* part_000: `const out = await adminApproveRequest(query, id)` *)
ApproveRoute(c, param) == ApproveBegin(c, param, TRUE)

(* src/server.js: `const out = adminApproveRequest(query, id)` is not      *)
(* awaited, so out is a Promise, out.ok is undefined and the handler       *)
(* answers 404 with the Promise as body; the operation runs on.            *)
ApproveRouteServerJs(c, param) == ApproveBegin(c, param, FALSE)

ApproveUpsert(c) ==
  LET call == calls[c] IN
  /\ call.pc = "approve_upsert"
  /\ flats' = UpsertFlat(flats, call.flat_id, call.now)
  /\ Suspend(c, [call EXCEPT !.pc = "approve_update"])
  /\ sent' = Nothing
  /\ UNCHANGED <<flat_requests, flat_requests_seq, setup_codes, setup_codes_seq, clock, session>>
  /\ UNCHANGED live

ApproveUpdate(c) ==
  LET call == calls[c]
      out == [ok |-> TRUE, flat_id |-> call.flat_id]
  IN
  /\ call.pc = "approve_update"
  /\ flat_requests' = UpdateRequestStatus(flat_requests, call.id, "APPROVED", call.now)
  /\ Return(c)
  /\ sent' = IF call.awaited
               THEN Produced("approveRequest", call.id, call.flat_id, out, 200, out)
               ELSE Produced("approveRequest", call.id, call.flat_id, out, 0, NoBody)
  /\ UNCHANGED <<flat_requests_seq, flats, setup_codes, setup_codes_seq, clock, session>>
  /\ UNCHANGED live

(***************************************************************************)
(* POST /admin/api/requests/:id/reject                                     *)
(***************************************************************************)
RejectRoute(c, param) ==
  LET id == Number(param) IN
  /\ Free(c)
  /\ IF ~NumberIsFinite(id)
       THEN /\ sent' = BadId("rejectRequest")
            /\ UNCHANGED calls
       ELSE IF SelectRequest(flat_requests, id[1]) = NULL
         THEN /\ sent' = Produced("rejectRequest", id[1], <<>>, RequestNotFound, 404,
                                  RequestNotFound)
              /\ UNCHANGED calls
         ELSE /\ sent' = Nothing
              /\ Suspend(c, [IdleCall EXCEPT !.op = "rejectRequest", !.pc = "reject_update",
                                             !.now = clock, !.id = id[1]])
  /\ UNCHANGED <<store, clock, session>>

RejectUpdate(c) ==
  LET call == calls[c] IN
  /\ call.pc = "reject_update"
  /\ flat_requests' = UpdateRequestStatus(flat_requests, call.id, "REJECTED", call.now)
  /\ Return(c)
  /\ sent' = Produced("rejectRequest", call.id, <<>>, [ok |-> TRUE], 200, [ok |-> TRUE])
  /\ UNCHANGED <<flat_requests_seq, flats, setup_codes, setup_codes_seq, clock, session>>
  /\ UNCHANGED live

(* src/server.js: the handler reads `db`, which the file never defines:    *)
(* db.prepare throws a ReferenceError before any store command is issued,  *)
(* and express answers 500.                                                *)
RejectRouteServerJs(param) ==
  LET id == Number(param) IN
  /\ sent' = IF ~NumberIsFinite(id)
               THEN BadId("rejectRequest")
               ELSE Produced("rejectRequest", id[1], <<>>,
                             [ok |-> FALSE, error |-> "ReferenceError: db is not defined"],
                             500, [json |-> "Internal Server Error"])
  /\ UNCHANGED <<store, clock, session, calls>>

(***************************************************************************)
(* POST /admin/api/flats/:flat_id/setup-code  +  adminGenerateSetupCode    *)
(***************************************************************************)
FlatNotFound == [ok |-> FALSE, error |-> "FLAT_NOT_FOUND"]

(* req.body?.ttlMinutes as it arrives, and Number(... ?? 60) with the      *)
(* Number.isFinite fallback                                                *)
TtlBodies == {"absent", "1", "", "soon"}
TtlMinutes(b) ==
  LET ttlMinutes == IF b = "absent" THEN Some(60) ELSE Number(b)
  IN IF NumberIsFinite(ttlMinutes) THEN ttlMinutes[1] ELSE 60

PendingCodes == Cardinality({c \in Clients : calls[c].pc = "code_insert"})

SetupCodeRoute(c, param, ttlBody) ==
  LET flat_id == toUpperCase(trim(param)) IN
  /\ Free(c)
  /\ IF SelectFlat(flats, flat_id) = NULL
       THEN /\ sent' = Produced("generateSetupCode", 0, flat_id, FlatNotFound, 404, FlatNotFound)
            /\ UNCHANGED calls
       ELSE /\ setup_codes_seq + PendingCodes <= MaxCodes
            /\ sent' = Nothing
            /\ Suspend(c, [IdleCall EXCEPT !.op = "generateSetupCode", !.pc = "code_insert",
                                           !.now = clock, !.flat_id = flat_id,
                                           !.ttlMinutes = TtlMinutes(ttlBody)])
  /\ UNCHANGED <<store, clock, session>>

(* generateHumanCode and bcrypt.hash touch no store: they are one step     *)
(* with the INSERT that follows them.                                      *)
CodeInsert(c, r, salt) ==
  LET call == calls[c]
      code == generateHumanCode(9, r)
      code_hash == bcrypt_hash(code, 10, salt)
      expires_at == call.now + call.ttlMinutes * 60000
  IN
  /\ call.pc = "code_insert"
  /\ setup_codes' = InsertSetupCode(setup_codes, setup_codes_seq, call.flat_id, code_hash,
                                    expires_at, call.now)
  /\ setup_codes_seq' = setup_codes_seq + 1
  /\ Suspend(c, [call EXCEPT !.pc = "code_update", !.code = code])
  /\ sent' = Nothing
  /\ UNCHANGED <<flat_requests, flat_requests_seq, flats, clock, session>>
  /\ UNCHANGED live

CodeUpdate(c) ==
  LET call == calls[c]
      out == [ok |-> TRUE, flat_id |-> call.flat_id, code |-> call.code,
              expires_at |-> call.now + call.ttlMinutes * 60000]
  IN
  /\ call.pc = "code_update"
  /\ flats' = UpdateFlatClearPin(flats, call.flat_id, call.now)
  /\ Return(c)
  /\ sent' = Produced("generateSetupCode", 0, call.flat_id, out, 200, out)
  /\ UNCHANGED <<flat_requests, flat_requests_seq, setup_codes, setup_codes_seq, clock, session>>
  /\ UNCHANGED live

(***************************************************************************)
(* POST /admin/api/flats/:flat_id/revoke-ban  +  adminRevokeBan            *)
(***************************************************************************)
RevokeBanRoute(c, param) ==
  LET flat_id == toUpperCase(trim(param)) IN
  /\ Free(c)
  /\ IF SelectFlat(flats, flat_id) = NULL
       THEN /\ sent' = Produced("revokeBan", 0, flat_id, FlatNotFound, 404, FlatNotFound)
            /\ UNCHANGED calls
       ELSE /\ sent' = Nothing
            /\ Suspend(c, [IdleCall EXCEPT !.op = "revokeBan", !.pc = "revoke_update",
                                           !.now = clock, !.flat_id = flat_id])
  /\ UNCHANGED <<store, clock, session>>

RevokeUpdate(c) ==
  LET call == calls[c] IN
  /\ call.pc = "revoke_update"
  /\ flats' = UpdateFlatRevokeBan(flats, call.flat_id, call.now)
  /\ Return(c)
  /\ sent' = Produced("revokeBan", 0, call.flat_id, [ok |-> TRUE], 200, [ok |-> TRUE])
  /\ UNCHANGED <<flat_requests, flat_requests_seq, setup_codes, setup_codes_seq, clock, session>>
  /\ UNCHANGED live

(***************************************************************************)
(* POST /admin/api/flats/:flat_id/disable  +  adminDisableFlat             *)
(***************************************************************************)
(* req.body?.disabled as it arrives, and Boolean(... ?? true) *)
DisabledBodies == {"absent", "true", "false"}
Boolean(b) == b # "false"

DisableRoute(c, param, disabledBody) ==
  LET flat_id == toUpperCase(trim(param)) IN
  /\ Free(c)
  /\ IF SelectFlat(flats, flat_id) = NULL
       THEN /\ sent' = Produced("disableFlat", 0, flat_id, FlatNotFound, 404, FlatNotFound)
            /\ UNCHANGED calls
       ELSE /\ sent' = Nothing
            /\ Suspend(c, [IdleCall EXCEPT !.op = "disableFlat", !.pc = "disable_update",
                                           !.now = clock, !.flat_id = flat_id,
                                           !.disabled = Boolean(disabledBody)])
  /\ UNCHANGED <<store, clock, session>>

DisableUpdate(c) ==
  LET call == calls[c] IN
  /\ call.pc = "disable_update"
  /\ flats' = UpdateFlatStatus(flats, call.flat_id, call.disabled, call.now)
  /\ Return(c)
  /\ sent' = Produced("disableFlat", 0, call.flat_id, [ok |-> TRUE], 200, [ok |-> TRUE])
  /\ UNCHANGED <<flat_requests, flat_requests_seq, setup_codes, setup_codes_seq, clock, session>>
  /\ UNCHANGED live

(***************************************************************************)
(* GET /admin/api/flats  +  adminListFlats                                 *)
(***************************************************************************)
(* req.query.q as it arrives *)
QParams == { <<>>, <<"a">>, <<"_">>, <<"2">> }

(* s LIKE p: % matches any run of characters, _ any one character, and a   *)
(* backslash takes the next character literally                            *)
RECURSIVE Like(_, _)
Like(s, p) ==
  IF p = <<>> THEN s = <<>>
  ELSE IF Head(p) = "%"
    THEN Like(s, Tail(p)) \/ (s # <<>> /\ Like(Tail(s), p))
  ELSE IF Head(p) = "\\" /\ Len(p) >= 2
    THEN s # <<>> /\ Head(s) = p[2] /\ Like(Tail(s), Tail(Tail(p)))
  ELSE IF Head(p) = "_"
    THEN s # <<>> /\ Like(Tail(s), Tail(p))
  ELSE s # <<>> /\ Head(s) = Head(p) /\ Like(Tail(s), Tail(p))

(* ILIKE folds the case of both sides *)
ILike(s, p) == Like(toUpperCase(s), toUpperCase(p))

(* ORDER BY flat_id ASC: characters by code point, strings lexically *)
CodePoint(ch) ==
  CASE ch = " " -> 32
    [] ch = "%" -> 37
    [] ch = "1" -> 49
    [] ch = "2" -> 50
    [] ch = "A" -> 65
    [] ch = "B" -> 66
    [] ch = "_" -> 95
    [] ch = "a" -> 97
    [] ch = "b" -> 98
    [] OTHER -> 127
RECURSIVE Ascending(_, _)
Ascending(s, t) ==
  IF s = <<>> THEN TRUE
  ELSE IF t = <<>> THEN FALSE
  ELSE IF Head(s) # Head(t) THEN CodePoint(Head(s)) < CodePoint(Head(t))
  ELSE Ascending(Tail(s), Tail(t))
RECURSIVE OrderBy(_)
OrderBy(S) ==
  IF S = {} THEN <<>>
  ELSE LET m == CHOOSE x \in S : \A y \in S : Ascending(x, y)
       IN <<m>> \o OrderBy(S \ {m})

(* SELECT flat_id, status, strike_count, ban_until, requires_admin_revoke, *)
(* created_at, last_login_at FROM flats WHERE flat_id ILIKE $1             *)
(* ORDER BY flat_id ASC LIMIT $2                                           *)
SelectFlatsLike(fl, like, limit) ==
  LET ids == OrderBy({f \in DOMAIN fl : ILike(f, like)})
      n == IF Len(ids) < limit THEN Len(ids) ELSE limit
  IN [i \in 1..n |->
        [flat_id |-> ids[i], status |-> fl[ids[i]].status,
         strike_count |-> fl[ids[i]].strike_count, ban_until |-> fl[ids[i]].ban_until,
         requires_admin_revoke |-> fl[ids[i]].requires_admin_revoke,
         created_at |-> fl[ids[i]].created_at, last_login_at |-> fl[ids[i]].last_login_at]]

ListLimit == 200
adminListFlats(fl, q, limit) == SelectFlatsLike(fl, <<"%">> \o q \o <<"%">>, limit)

(* one awaited query, answered in the step the query executes *)
ListFlats(param) ==
  LET q == toUpperCase(trim(param))
      rows == adminListFlats(flats, q, ListLimit)
  IN
  /\ sent' = Produced("listFlats", 0, q, [rows |-> rows], 200, [ok |-> TRUE, rows |-> rows])
  /\ UNCHANGED <<store, clock, calls, session>>

(***************************************************************************)
(* The metrics object and the middleware in front of every route.  The     *)
(* process started at instant 0.  requestTimestamps is the trailing        *)
(* window, oldest first.                                                   *)
(***************************************************************************)
startedAt == 0
NoMetrics ==
  [totalRequests |-> 0, inFlight |-> 0, uniqueIPs |-> {}, requestTimestamps |-> << >>]

(* a plausible slip: `<=` for `<`, the entry at the cutoff dropped too *)
RECURSIVE ShiftedInclusive(_, _)
ShiftedInclusive(ts, cutoff) ==
  IF Len(ts) > 0 /\ Head(ts) <= cutoff THEN ShiftedInclusive(Tail(ts), cutoff) ELSE ts

(* a plausible slip: `if` for `while`, one entry dropped at most *)
ShiftedOnce(ts, cutoff) ==
  IF Len(ts) > 0 /\ Head(ts) < cutoff THEN Tail(ts) ELSE ts

RECURSIVE Shifted(_, _)
Shifted(ts, cutoff) ==
  IF Len(ts) > 0 /\ Head(ts) < cutoff THEN Shifted(Tail(ts), cutoff) ELSE ts

pruneOldRequests(m, now) ==
  LET cutoff == now - 60000
  IN [m EXCEPT !.requestTimestamps = Shifted(@, cutoff)]

IPs == {"ip1", "ip2"}

(* app.use((req, res, next) => ...): the metrics as the router finds them *)
metricsMiddleware(m, ip, now) ==
  pruneOldRequests([totalRequests |-> m.totalRequests + 1,
                    inFlight |-> m.inFlight + 1,
                    uniqueIPs |-> m.uniqueIPs \cup {ip},
                    requestTimestamps |-> Append(m.requestTimestamps, now)], now)

Max(a, b) == IF a >= b THEN a ELSE b

(* res.on("finish"): the response has been handed to the operating system *)
ResFinish ==
  /\ pending > 0
  /\ pending' = pending - 1
  /\ UNCHANGED <<recorded, monitor>>
  /\ metrics' = [metrics EXCEPT !.inFlight = Max(0, @ - 1)]
  /\ sent' = Nothing
  /\ wire' = << >>
  /\ UNCHANGED <<store, clock, calls, session, wsClients, readyState>>

(* the client closes the connection before the response has finished: the  *)
(* response emits close, and finish never                                  *)
ResAbort ==
  /\ pending > 0
  /\ pending' = pending - 1
  /\ UNCHANGED <<recorded, monitor>>
  /\ sent' = Nothing
  /\ wire' = << >>
  /\ UNCHANGED <<store, clock, calls, session, metrics, wsClients, readyState>>

(***************************************************************************)
(* GET /admin/api/metrics.  m is the metrics as the middleware left them.  *)
(***************************************************************************)
MetricsRoute(m) ==
  LET now == clock
      pruned == pruneOldRequests(m, now)
  IN
  /\ metrics' = pruned
  /\ sent' = Produced("metrics", 0, <<>>, NoOut, 200,
                      [uptimeSec |-> (now - startedAt) \div 1000,
                       totalRequests |-> pruned.totalRequests,
                       inFlight |-> pruned.inFlight,
                       uniqueIPs |-> Cardinality(pruned.uniqueIPs),
                       rpm |-> Len(pruned.requestTimestamps)])
  /\ UNCHANGED <<store, clock, calls, session>>

(***************************************************************************)
(* WebSocket live updates.  wsClients is a JavaScript Set: it iterates in  *)
(* insertion order, so it is kept as a sequence without repetitions.  A    *)
(* peer's readyState is NONE while it has no WebSocket.  What a step       *)
(* writes to a peer's socket is on the wire: a raw HTTP response line, a   *)
(* message (the JSON text), or the socket's destruction.                   *)
(***************************************************************************)
Peers == {"w1", "w2"}
WsUrls == { <<"admin", "ws">>, <<"admin", "ws", "x">>, <<"admin">> }

SetHas(S, x) == \E i \in 1..Len(S) : S[i] = x
SetAdd(S, x) == IF SetHas(S, x) THEN S ELSE Append(S, x)
SetDelete(S, x) == SelectSeq(S, LAMBDA y : y # x)

Frame(to, data) == [to |-> to, data |-> data]
Destroyed(to) == Frame(to, [destroyed |-> TRUE])
JSON_stringify(obj) == [json |-> obj]

(* cpu and ram thresholds in hundredths *)
thresholds ==
  [cpuWarn |-> 70, cpuCrit |-> 90, ramWarn |-> 70, ramCrit |-> 85,
   rpmWarn |-> 120, rpmCrit |-> 240]

(* the object buildSnapshot returns; it prunes the window first, which the  *)
(* calling action records in metrics                                        *)
buildSnapshot(m, clients, now) ==
  LET pruned == pruneOldRequests(m, now)
  IN [ts |-> now,
      uptimeSec |-> (now - startedAt) \div 1000,
      totalRequests |-> pruned.totalRequests,
      inFlight |-> pruned.inFlight,
      uniqueIPs |-> Cardinality(pruned.uniqueIPs),
      rpm |-> Len(pruned.requestTimestamps),
      viewers |-> Len(clients),
      thresholds |-> thresholds]

(* a plausible slip: the readyState test left out *)
broadcastToAll(obj, clients, rs) ==
  LET msg == JSON_stringify(obj)
  IN [i \in 1..Len(clients) |-> Frame(clients[i], msg)]

(* a plausible slip: the session consulted again at every broadcast *)
broadcastWhileLoggedIn(obj, clients, rs) ==
  LET msg == JSON_stringify(obj)
      open == SelectSeq(clients, LAMBDA ws : rs[ws] = "OPEN" /\ session.isAdmin)
  IN [i \in 1..Len(open) |-> Frame(open[i], msg)]

(* the frames broadcast(obj) writes *)
broadcast(obj, clients, rs) ==
  LET msg == JSON_stringify(obj)
      open == SelectSeq(clients, LAMBDA ws : rs[ws] = "OPEN")
  IN [i \in 1..Len(open) |-> Frame(open[i], msg)]

(* a plausible slip: the snapshot built before the subscriber is added *)
ConnectionSnapshotFirst(ws) ==
  LET clients == SetAdd(wsClients, ws)
  IN
  /\ wsClients' = clients
  /\ readyState' = [readyState EXCEPT ![ws] = "OPEN"]
  /\ metrics' = pruneOldRequests(metrics, clock)
  /\ wire' = << Frame(ws, JSON_stringify(buildSnapshot(metrics, wsClients, clock))) >>

(* wss.on("connection") *)
Connection(ws) ==
  LET clients == SetAdd(wsClients, ws)
  IN
  /\ wsClients' = clients
  /\ readyState' = [readyState EXCEPT ![ws] = "OPEN"]
  /\ metrics' = pruneOldRequests(metrics, clock)
  /\ wire' = << Frame(ws, JSON_stringify(buildSnapshot(metrics, clients, clock))) >>

(* a plausible slip: the upgrade handled without the session check *)
UpgradeUnchecked(peer, cookie, url) ==
  /\ readyState[peer] = "NONE"
  /\ IF ~startsWith(url, <<"admin", "ws">>)
       THEN /\ wire' = << Destroyed(peer) >>
            /\ UNCHANGED <<metrics, wsClients, readyState>>
       ELSE Connection(peer)
  /\ sent' = Nothing
  /\ UNCHANGED <<store, clock, calls, session, pending, recorded, monitor>>

(* server.on("upgrade"): a peer without a WebSocket asks for one *)
Upgrade(peer, cookie, url) ==
  /\ readyState[peer] = "NONE"
  /\ IF ~startsWith(url, <<"admin", "ws">>)
       THEN /\ wire' = << Destroyed(peer) >>
            /\ UNCHANGED <<metrics, wsClients, readyState>>
       ELSE IF ~req_session(cookie).isAdmin
         THEN /\ wire' = << Frame(peer, [raw |-> "HTTP/1.1 401 Unauthorized\r\n\r\n"]),
                            Destroyed(peer) >>
              /\ UNCHANGED <<metrics, wsClients, readyState>>
         ELSE Connection(peer)
  /\ sent' = Nothing
  /\ UNCHANGED <<store, clock, calls, session, pending, recorded, monitor>>

(* the transport of a WebSocket: the closing handshake begins, the         *)
(* transport is closed, the close event reaches the listener               *)
SocketClosing(ws) ==
  /\ readyState[ws] = "OPEN"
  /\ readyState' = [readyState EXCEPT ![ws] = "CLOSING"]
  /\ sent' = Nothing
  /\ wire' = << >>
  /\ UNCHANGED <<store, clock, calls, session, metrics, wsClients, pending, recorded, monitor>>

SocketClosed(ws) ==
  /\ readyState[ws] \in {"OPEN", "CLOSING"}
  /\ readyState' = [readyState EXCEPT ![ws] = "CLOSED"]
  /\ sent' = Nothing
  /\ wire' = << >>
  /\ UNCHANGED <<store, clock, calls, session, metrics, wsClients, pending, recorded, monitor>>

(* a plausible slip: the close listener left out, the subscriber never     *)
(* removed                                                                 *)
CloseEventKeeps(ws) ==
  /\ readyState[ws] = "CLOSED"
  /\ readyState' = [readyState EXCEPT ![ws] = "NONE"]
  /\ sent' = Nothing
  /\ wire' = << >>
  /\ UNCHANGED <<store, clock, calls, session, metrics, wsClients, pending, recorded, monitor>>

(* ws.on("close") *)
CloseEvent(ws) ==
  /\ readyState[ws] = "CLOSED"
  /\ wsClients' = SetDelete(wsClients, ws)
  /\ readyState' = [readyState EXCEPT ![ws] = "NONE"]
  /\ sent' = Nothing
  /\ wire' = << >>
  /\ UNCHANGED <<store, clock, calls, session, metrics, pending, recorded, monitor>>

(* a plausible slip: the snapshot built and broadcast on every tick *)
IntervalTickAlways ==
  /\ metrics' = pruneOldRequests(metrics, clock)
  /\ wire' = broadcast(buildSnapshot(metrics, wsClients, clock), wsClients, readyState)
  /\ sent' = Nothing
  /\ UNCHANGED <<store, clock, calls, session, wsClients, readyState, pending, recorded, monitor>>

(* the setInterval callback *)
IntervalTick ==
  /\ IF Len(wsClients) > 0
       THEN /\ metrics' = pruneOldRequests(metrics, clock)
            /\ wire' = broadcast(buildSnapshot(metrics, wsClients, clock), wsClients, readyState)
       ELSE /\ wire' = << >>
            /\ UNCHANGED metrics
  /\ sent' = Nothing
  /\ UNCHANGED <<store, clock, calls, session, wsClients, readyState, pending, recorded, monitor>>

(***************************************************************************)
(* The snapshot with the host's readings, and the monitor panel of the     *)
(* dashboard page that renders it.  Ratios are in hundredths, as the       *)
(* thresholds are: load1 is the 1-minute load average in hundredths, rss   *)
(* and totalMem are in units of a hundredth of the host's memory.          *)
(***************************************************************************)
HostReadings ==
  [load1 : {0, 69, 70, 89, 90, 180}, cpuCores : {0, 1, 2},
   rss : {0, 69, 70, 84, 85, 99}, totalMem : {100}]

(* buildSnapshot with process.memoryUsage() and the os readings in it *)
buildHostSnapshot(m, clients, now, host) ==
  buildSnapshot(m, clients, now) @@
  [mem |-> [rss |-> host.rss],
   hw |-> [totalMem |-> host.totalMem, cpuCores |-> host.cpuCores, load1 |-> host.load1,
           cpuPressure |-> IF host.cpuCores # 0 THEN host.load1 \div host.cpuCores ELSE 0]]

Min(a, b) == IF a <= b THEN a ELSE b
pct(n) == Max(0, Min(100, n))
setAlert(level, text) == [level |-> level, text |-> text]
setStatus(level, text, icon) == [level |-> level, text |-> text, icon |-> icon]

(* the page as it is served: nothing rendered yet.  cpuText, ramText and   *)
(* rpmText hold the number the text shows (a percentage, or the rate), or  *)
(* nothing when the text shows none.                                       *)
NoMonitor ==
  [cpuText |-> << >>, ramText |-> << >>, rpmText |-> << >>,
   cpuAlert |-> setAlert("", ""), ramAlert |-> setAlert("", ""), rpmAlert |-> setAlert("", ""),
   cpuBar |-> 0, ramBar |-> 0, rpmBar |-> 0, status |-> setStatus("", "", "")]

(* a plausible slip: the banner compares with > where the alerts use >= *)
renderMonitorStrictBanner(d, s) ==
  LET mem == s.mem
      hw == s.hw
      th == s.thresholds
      cpuPressure == hw.cpuPressure
      rss == mem.rss
      totalMem == hw.totalMem
      ramRatio == IF totalMem > 0 THEN (rss * 100) \div totalMem ELSE 0
      rpm == s.rpm
      rpmWarn == th.rpmWarn
      rpmCrit == th.rpmCrit
      rpmRatio == IF rpmCrit > 0 THEN Min((rpm * 200 + rpmCrit) \div (2 * rpmCrit), 100) ELSE 0
  IN [cpuText |-> IF hw.cpuCores # 0 THEN <<cpuPressure>> ELSE << >>,
      ramText |-> IF totalMem > 0 THEN <<ramRatio>> ELSE d.ramText,
      rpmText |-> <<rpm>>,
      cpuAlert |->
        IF cpuPressure >= th.cpuCrit THEN setAlert("crit", "CRITICAL: CPU pressure high")
        ELSE IF cpuPressure >= th.cpuWarn THEN setAlert("warn", "Warning: CPU pressure rising")
        ELSE setAlert("", ""),
      cpuBar |-> pct(Min(cpuPressure, 100)),
      ramAlert |->
        IF totalMem > 0
          THEN IF ramRatio >= th.ramCrit THEN setAlert("crit", "CRITICAL: RAM usage high")
               ELSE IF ramRatio >= th.ramWarn THEN setAlert("warn", "Warning: RAM usage rising")
               ELSE setAlert("", "")
          ELSE d.ramAlert,
      ramBar |-> IF totalMem > 0 THEN pct(ramRatio) ELSE d.ramBar,
      rpmAlert |->
        IF rpm >= rpmCrit THEN setAlert("crit", "CRITICAL: request rate very high")
        ELSE IF rpm >= rpmWarn THEN setAlert("warn", "Warning: request rate high")
        ELSE setAlert("", ""),
      rpmBar |-> pct(rpmRatio),
      status |->
        IF cpuPressure > th.cpuCrit \/ (totalMem > 0 /\ ramRatio > th.ramCrit) \/ rpm > rpmCrit
          THEN setStatus("crit", "CRITICAL: System under heavy load", "x")
        ELSE IF cpuPressure > th.cpuWarn \/ (totalMem > 0 /\ ramRatio > th.ramWarn)
                \/ rpm > rpmWarn
          THEN setStatus("warn", "WARNING: System load rising", "!")
        ELSE setStatus("ok", "SYSTEM OK", "v")]

(* renderMonitor(s): the panel after it, d being the panel before.  The    *)
(* RAM alert and bar are written only when totalMem > 0.                   *)
renderMonitor(d, s) ==
  LET mem == s.mem
      hw == s.hw
      th == s.thresholds
      cpuPressure == hw.cpuPressure
      rss == mem.rss
      totalMem == hw.totalMem
      ramRatio == IF totalMem > 0 THEN (rss * 100) \div totalMem ELSE 0
      rpm == s.rpm
      rpmWarn == th.rpmWarn
      rpmCrit == th.rpmCrit
      rpmRatio == IF rpmCrit > 0 THEN Min((rpm * 200 + rpmCrit) \div (2 * rpmCrit), 100) ELSE 0
  IN [cpuText |-> IF hw.cpuCores # 0 THEN <<cpuPressure>> ELSE << >>,
      ramText |-> IF totalMem > 0 THEN <<ramRatio>> ELSE d.ramText,
      rpmText |-> <<rpm>>,
      cpuAlert |->
        IF cpuPressure >= th.cpuCrit THEN setAlert("crit", "CRITICAL: CPU pressure high")
        ELSE IF cpuPressure >= th.cpuWarn THEN setAlert("warn", "Warning: CPU pressure rising")
        ELSE setAlert("", ""),
      cpuBar |-> pct(Min(cpuPressure, 100)),
      ramAlert |->
        IF totalMem > 0
          THEN IF ramRatio >= th.ramCrit THEN setAlert("crit", "CRITICAL: RAM usage high")
               ELSE IF ramRatio >= th.ramWarn THEN setAlert("warn", "Warning: RAM usage rising")
               ELSE setAlert("", "")
          ELSE d.ramAlert,
      ramBar |-> IF totalMem > 0 THEN pct(ramRatio) ELSE d.ramBar,
      rpmAlert |->
        IF rpm >= rpmCrit THEN setAlert("crit", "CRITICAL: request rate very high")
        ELSE IF rpm >= rpmWarn THEN setAlert("warn", "Warning: request rate high")
        ELSE setAlert("", ""),
      rpmBar |-> pct(rpmRatio),
      status |->
        IF cpuPressure >= th.cpuCrit \/ (totalMem > 0 /\ ramRatio >= th.ramCrit) \/ rpm >= rpmCrit
          THEN setStatus("crit", "CRITICAL: System under heavy load", "x")
        ELSE IF cpuPressure >= th.cpuWarn \/ (totalMem > 0 /\ ramRatio >= th.ramWarn)
                \/ rpm >= rpmWarn
          THEN setStatus("warn", "WARNING: System load rising", "!")
        ELSE setStatus("ok", "SYSTEM OK", "v")]

(* ws.onmessage: a snapshot arrives and is rendered *)
Render(s) ==
  /\ monitor' = renderMonitor(monitor, s)
  /\ sent' = Nothing
  /\ UNCHANGED <<store, clock, calls, session>>
  /\ UNCHANGED <<metrics, wsClients, readyState, wire, pending, recorded>>

(* ws.onclose *)
Disconnected ==
  /\ monitor' = [monitor EXCEPT
                   !.status = setStatus("warn", "WARNING: Disconnected from server", "!")]
  /\ sent' = Nothing
  /\ UNCHANGED <<store, clock, calls, session>>
  /\ UNCHANGED <<metrics, wsClients, readyState, wire, pending, recorded>>

(* the snapshots the monitor is shown: a window of n requests at instant   *)
(* 0, on a host with the readings h                                        *)
RpmReadings == {0, 119, 120, 239, 240, 241}
WindowOf(n) ==
  [totalRequests |-> n, inFlight |-> 0, uniqueIPs |-> {"ip1"},
   requestTimestamps |-> [i \in 1..n |-> 0]]
MonitorSnapshots ==
  { buildHostSnapshot(WindowOf(n), <<"w1">>, 0, h) : n \in RpmReadings, h \in HostReadings }

(***************************************************************************)
(* GET /admin/api/live, the DB viewer routes                               *)
(***************************************************************************)
(* Strings the proxy takes apart are sequences: a body and an error       *)
(* message of characters, a content-type header of pieces cut so that      *)
(* "application/json" is one piece.  A template literal is the             *)
(* concatenation of its parts.                                             *)
Q == "\""
Repeat(ch, n) == [i \in 1..n |-> ch]

OkText == <<"{", Q, "o", "k", Q, ":", "t", "r", "u", "e", "}">>
FailText == <<"{", Q, "o", "k", Q, ":", "f", "a", "l", "s", "e", "}">>
FailErrorText ==
  <<"{", Q, "o", "k", Q, ":", "f", "a", "l", "s", "e", ",",
    Q, "e", "r", "r", "o", "r", Q, ":", Q, "E", "1", Q, "}">>
FailEmptyErrorText ==
  <<"{", Q, "o", "k", Q, ":", "f", "a", "l", "s", "e", ",",
    Q, "e", "r", "r", "o", "r", Q, ":", Q, Q, "}">>
ErrorText == <<"{", Q, "e", "r", "r", "o", "r", Q, ":", Q, "E", "2", Q, "}">>
NullText == <<"n", "u", "l", "l">>
HtmlPage == <<"<", "h", "t", "m", "l", ">">> \o Repeat("x", 124)   \* 130 characters
EmptyText == << >>

JsNull == [null |-> TRUE]

(* JSON.parse on the texts above: the value, or NULL where it throws *)
JSON_parse(text) ==
  CASE text = OkText -> Some([ok |-> TRUE])
    [] text = FailText -> Some([ok |-> FALSE])
    [] text = FailErrorText -> Some([ok |-> FALSE, error |-> <<"E", "1">>])
    [] text = FailEmptyErrorText -> Some([ok |-> FALSE, error |-> << >>])
    [] text = ErrorText -> Some([error |-> <<"E", "2">>])
    [] text = NullText -> Some(JsNull)
    [] OTHER -> NULL

SyntaxErrorMessage == <<"Unexpected token">>

LowerPiece(piece) ==
  CASE piece = "Application/JSON" -> "application/json"
    [] piece = "Text/HTML" -> "text/html"
    [] OTHER -> piece
toLowerCasePieces(s) == [i \in 1..Len(s) |-> LowerPiece(s[i])]

includes(s, sub) ==
  \E i \in 0..(Len(s) - Len(sub)) : SubSeq(s, i + 1, i + Len(sub)) = sub

(* what fetch comes back with: a response (its body unreadable when body   *)
(* is NULL), or a rejection with its message                               *)
Statuses == {200, 500}
ContentTypes ==
  { NULL, Some(<<"text/html">>), Some(<<"application/json">>),
    Some(<<"Application/JSON", "; charset=utf-8">>), Some(<<"application/json", "-seq">>) }
Bodies ==
  { NULL } \cup
  { Some(t) : t \in {OkText, FailText, FailErrorText, FailEmptyErrorText, ErrorText,
                     NullText, HtmlPage, EmptyText} }
Responses == [status : Statuses, content_type : ContentTypes, body : Bodies]
Rejections == { [rejected |-> <<"fetch failed">>], [rejected |-> << >>] }

res_ok(res) == res.status >= 200 /\ res.status <= 299

(* what fetchUserLiveSnapshot does with it: the value it returns, or the   *)
(* message of the error it throws; json tells whether res.json() ran       *)
Returned(data) == [returned |-> data, json |-> TRUE]
Thrown(message, json) == [thrown |-> message, json |-> json]

(* a plausible slip: the payload's ok left unread, the status alone tested *)
fetchUserLiveSnapshotStatusOnly(res) ==
  IF "rejected" \in DOMAIN res THEN Thrown(res.rejected, FALSE)
  ELSE
    LET header == res.content_type
        ct == toLowerCasePieces(IF header = NULL THEN << >> ELSE header[1])
    IN
    IF ~includes(ct, <<"application/json">>)
      THEN LET text == IF res.body = NULL THEN << >> ELSE res.body[1]
           IN Thrown(<<"BAD_SNAPSHOT_RESPONSE (", ToString(res.status), ") ">>
                       \o slice(text, 0, 120), FALSE)
      ELSE
        LET parsed == IF res.body = NULL THEN NULL ELSE JSON_parse(res.body[1])
        IN
        IF parsed = NULL THEN Thrown(SyntaxErrorMessage, TRUE)
        ELSE
          LET data == parsed[1]
              declared == IF "error" \in DOMAIN data THEN data.error ELSE << >>
          IN
          IF ~res_ok(res)
            THEN Thrown(IF declared # << >> THEN declared
                        ELSE <<"SNAPSHOT_HTTP_", ToString(res.status)>>, TRUE)
            ELSE Returned(data)

fetchUserLiveSnapshot(res) ==
  IF "rejected" \in DOMAIN res THEN Thrown(res.rejected, FALSE)
  ELSE
    LET header == res.content_type
        ct == toLowerCasePieces(IF header = NULL THEN << >> ELSE header[1])
    IN
    IF ~includes(ct, <<"application/json">>)
      THEN LET text == IF res.body = NULL THEN << >> ELSE res.body[1]
           IN Thrown(<<"BAD_SNAPSHOT_RESPONSE (", ToString(res.status), ") ">>
                       \o slice(text, 0, 120), FALSE)
      ELSE
        LET parsed == IF res.body = NULL THEN NULL ELSE JSON_parse(res.body[1])
        IN
        IF parsed = NULL THEN Thrown(SyntaxErrorMessage, TRUE)
        ELSE
          LET data == parsed[1]
              declared == IF "error" \in DOMAIN data THEN data.error ELSE << >>
          IN
          IF ~res_ok(res) \/ ("ok" \in DOMAIN data /\ data.ok = FALSE)
            THEN Thrown(IF declared # << >> THEN declared
                        ELSE <<"SNAPSHOT_HTTP_", ToString(res.status)>>, TRUE)
            ELSE Returned(data)

(* GET /admin/api/live: the call waits for fetch ... *)
LiveRoute(c) ==
  /\ Free(c)
  /\ Suspend(c, [IdleCall EXCEPT !.op = "live", !.pc = "live_fetch", !.now = clock])
  /\ sent' = Nothing
  /\ UNCHANGED <<store, clock, session>>

(* ... and answers when fetch has settled.  error_message is the error    *)
(* field of the body, a string kept in its pieces.                         *)
LiveFetched(c, res) ==
  LET out == fetchUserLiveSnapshot(res) IN
  /\ calls[c].pc = "live_fetch"
  /\ Return(c)
  /\ sent' = IF "returned" \in DOMAIN out
               THEN Produced("live", 0, <<>>, out, 200, [ok |-> TRUE, snap |-> out.returned])
               ELSE Produced("live", 0, <<>>, out, 502,
                             [ok |-> FALSE,
                              error_message |-> IF out.thrown # << >> THEN out.thrown
                                                ELSE <<"LIVE_FETCH_FAILED">>])
  /\ UNCHANGED <<store, clock, session>>
  /\ UNCHANGED live

(* part_000: every DB viewer route, the row delete included, answers 501 *)
DbTables == {"flats", "setup_codes", "sqlite_master"}
DbViewerRoute(table) ==
  /\ sent' = Produced("dbViewer", 0, <<>>, NoOut, 501,
                      [ok |-> FALSE, error |-> "DB_VIEWER_DISABLED_ON_POSTGRES"])
  /\ UNCHANGED <<store, clock, calls, session>>

(* src/server.js: POST /admin/api/db/table/:table/delete.  getTableInfo    *)
(* refuses a table off the allow list (400) and otherwise reads `db`,      *)
(* which the file never defines: the ReferenceError is caught and          *)
(* answered 500 before any DELETE is prepared.                             *)
DB_ALLOW_TABLES == {"flat_requests", "flats", "setup_codes", "admin_audit"}
DbDeleteRouteServerJs(table) ==
  /\ sent' = IF table \notin DB_ALLOW_TABLES
               THEN Produced("dbViewer", 0, <<>>, NoOut, 400,
                             [ok |-> FALSE, error |-> "TABLE_NOT_ALLOWED"])
               ELSE Produced("dbViewer", 0, <<>>, NoOut, 500,
                             [ok |-> FALSE, error |-> "db is not defined"])
  /\ UNCHANGED <<store, clock, calls, session>>

(***************************************************************************)
(* Time, and the process going down with its calls in flight (the store    *)
(* is external and keeps what was written).                                *)
(***************************************************************************)
Tick ==
  /\ clock' \in {t \in Instants : t > clock}
  /\ sent' = Nothing
  /\ UNCHANGED <<store, calls, session>>
  /\ UNCHANGED live

(* time at the scale of the trailing window *)
WindowInstants == {0, 60000, 120001}
Elapse ==
  /\ clock' \in {t \in WindowInstants : t > clock}
  /\ sent' = Nothing
  /\ wire' = << >>
  /\ UNCHANGED <<store, calls, session, metrics, wsClients, readyState, pending, recorded, monitor>>

(* the store and the session records are external and keep what was         *)
(* written; the metrics and the subscribers go with the process            *)
Crash ==
  /\ \E c \in Clients : ~Free(c)
  /\ calls' = [c \in Clients |-> IdleCall]
  /\ sent' = Nothing
  /\ metrics' = NoMetrics
  /\ wsClients' = << >>
  /\ readyState' = [p \in Peers |-> "NONE"]
  /\ wire' = << >>
  /\ pending' = 0
  /\ recorded' = << >>
  /\ UNCHANGED monitor
  /\ UNCHANGED <<store, clock, session>>

(***************************************************************************)
(* A store command fails: the promise pool.query returned rejects, and the *)
(* await in the operation throws.  No lifecycle route has a try/catch, no  *)
(* error-handling middleware is mounted and no unhandledRejection listener *)
(* is set, so what follows is up to express and node, which the build      *)
(* picks:                                                                  *)
(*   default_handler  express passes the rejection of the handler to its   *)
(*                    default error handler, which answers 500 with a      *)
(*                    text page (express 5);                               *)
(*   unanswered       the rejection is unhandled and only reported: the    *)
(*                    handler is gone and the request is never answered    *)
(*                    (express 4, node run with warnings only);            *)
(*   exit             the unhandled rejection ends the process (express 4, *)
(*                    node's default since 15), calls in flight with it.   *)
(* A promise the route dropped (src/server.js) is never the handler's.     *)
(***************************************************************************)
StorePcs ==
  {"approve_upsert", "approve_update", "reject_update", "code_insert", "code_update",
   "revoke_update", "disable_update"}
FailureOutcomes == {"default_handler", "unanswered", "exit"}

StoreFailure(c, outcome) ==
  LET call == calls[c] IN
  /\ call.pc \in StorePcs
  /\ outcome = "default_handler" => call.awaited
  /\ IF outcome = "exit"
       THEN /\ calls' = [d \in Clients |-> IdleCall]
            /\ sent' = Nothing
            /\ metrics' = NoMetrics
            /\ wsClients' = << >>
            /\ readyState' = [p \in Peers |-> "NONE"]
            /\ wire' = << >>
            /\ pending' = 0
            /\ recorded' = << >>
            /\ UNCHANGED monitor
       ELSE /\ Return(c)
            /\ sent' = IF outcome = "default_handler"
                         THEN Produced(call.op, call.id, call.flat_id, NoOut, 500,
                                       [text |-> "Internal Server Error"])
                         ELSE Nothing
            /\ UNCHANGED live
  /\ UNCHANGED <<store, clock, session>>

(***************************************************************************)
(* The store at boot: the tables exist (CREATE TABLE IF NOT EXISTS) and    *)
(* flats may hold rows from earlier runs, whose credential and suspension  *)
(* columns the user-facing service has written.                            *)
(***************************************************************************)
BootFlatRows ==
  { [status |-> "ACTIVE", pin_hash |-> Some("pin"), password_hash |-> Some("pw"),
     strike_count |-> 0, ban_until |-> NULL, requires_admin_revoke |-> FALSE,
     created_at |-> 0, updated_at |-> 0, last_login_at |-> Some(0)],
    [status |-> "DISABLED", pin_hash |-> Some("pin"), password_hash |-> Some("pw"),
     strike_count |-> 2, ban_until |-> Some(86400000), requires_admin_revoke |-> TRUE,
     created_at |-> 0, updated_at |-> 0, last_login_at |-> NULL] }

BootFlatIds == { toUpperCase(trim(<<" ", "a", "1">>)) }
BootFlats == UNION { [ids -> BootFlatRows] : ids \in SUBSET BootFlatIds }

(* the state after construction, the store holding one of the flats tables fls *)
Boot(fls) ==
  /\ flat_requests = << >>
  /\ flat_requests_seq = 1
  /\ flats \in fls
  /\ setup_codes = << >>
  /\ setup_codes_seq = 1
  /\ clock = 0
  /\ calls = [c \in Clients |-> IdleCall]
  /\ session = NoSession
  /\ sent = Nothing
  /\ metrics = NoMetrics
  /\ wsClients = << >>
  /\ readyState = [p \in Peers |-> "NONE"]
  /\ wire = << >>
  /\ pending = 0
  /\ recorded = << >>
  /\ monitor = NoMonitor

Init == Boot(BootFlats)

(* a store that holds both flats at boot, written by earlier runs: one    *)
(* disabled, struck and banned, the other active                          *)
BootBothFlats ==
  { [f \in { toUpperCase(trim(p)) : p \in FlatIdParams } |->
       IF f \in BootFlatIds THEN CHOOSE r \in BootFlatRows : r.status = "DISABLED"
                            ELSE CHOOSE r \in BootFlatRows : r.status = "ACTIVE"] }
InitBothFlats == Boot(BootBothFlats)

(* The specifications.  In SpecRequests, SpecFlats, SpecCodes,             *)
(* SpecLists, SpecProxy and the five after it the requests come from the   *)
(* admin's browser, which logs in:                                         *)
(*   SpecRequests  the request routes, in one call slot, with time passing *)
(*                 and the process going down between their steps;         *)
(*   SpecFlats     the flat routes in every slot, interleaved (setup codes *)
(*                 with the default lifetime);                             *)
(*   SpecCodes     the setup-code route with every lifetime and every      *)
(*                 draw, next to the read and DB viewer routes;            *)
(*   SpecLists     approvals making flats, and the flat list;              *)
(*   SpecProxy     GET /admin/api/live against every answer of the user    *)
(*                 server;                                                 *)
(*   SpecApprovals approvals in every slot, interleaved with each other    *)
(*                 and with a rejection, the process going down between;   *)
(*   SpecFrames    the flat routes on a store that holds two flats;        *)
(*   SpecSpellings every route that takes a flat_id, given each spelling   *)
(*                 of it;                                                  *)
(*   SpecFaults    the lifecycle routes with store commands that fail;     *)
(*   SpecProxyFair SpecProxy with time sure to pass.                       *)
(* SpecMonitor is the dashboard page rendering the snapshots it receives.  *)
(* SpecAuth runs requests with and without the browser's cookie against a  *)
(* session that logs in and out.  SpecLive follows the metrics and the     *)
(* WebSocket subscribers: requests pass the metrics middleware, peers      *)
(* upgrade with and without the cookie and close, the interval callback    *)
(* fires, and time passes at the scale of the 60-second window.            *)
RequestClients == {"c1"}
Admin(path, next) == requireAdmin(SessionCookie, path, next) /\ UNCHANGED live

RequestOps ==
  \/ \E f \in FlatIdParams \cup {<<>>}, n \in Names, t \in Notes :
       Admin(ApiPath(<<"requests">>), CreateRequest(f, n, t))
  \/ \E c \in RequestClients, p \in IdParams :
       Admin(ApiPath(<<"requests", ":id", "approve">>), ApproveRoute(c, p))
  \/ \E c \in RequestClients, p \in IdParams :
       Admin(ApiPath(<<"requests", ":id", "approve">>), ApproveRouteServerJs(c, p))
  \/ \E c \in RequestClients : ApproveUpsert(c)
  \/ \E c \in RequestClients : ApproveUpdate(c)
  \/ \E c \in RequestClients, p \in IdParams :
       Admin(ApiPath(<<"requests", ":id", "reject">>), RejectRoute(c, p))
  \/ \E c \in RequestClients : RejectUpdate(c)
  \/ \E p \in IdParams : Admin(ApiPath(<<"requests", ":id", "reject">>), RejectRouteServerJs(p))

(* approvals in every slot, interleaved with each other and with a        *)
(* rejection, the process going down between their steps                  *)
ApprovalOps ==
  \/ \E f \in FlatIdParams, n \in Names, t \in Notes :
       Admin(ApiPath(<<"requests">>), CreateRequest(f, n, t))
  \/ \E c \in Clients, p \in IdParams :
       Admin(ApiPath(<<"requests", ":id", "approve">>), ApproveRoute(c, p))
  \/ \E c \in Clients, p \in IdParams :
       Admin(ApiPath(<<"requests", ":id", "approve">>), ApproveRouteServerJs(c, p))
  \/ \E c \in Clients : ApproveUpsert(c)
  \/ \E c \in Clients : ApproveUpdate(c)
  \/ \E c \in RequestClients, p \in IdParams :
       Admin(ApiPath(<<"requests", ":id", "reject">>), RejectRoute(c, p))
  \/ \E c \in RequestClients : RejectUpdate(c)

DefaultTtl == {"absent"}

FlatOps ==
  \/ \E c \in Clients, f \in FlatIdParams, b \in DefaultTtl :
       Admin(ApiPath(<<"flats", ":flat_id", "setup-code">>), SetupCodeRoute(c, f, b))
  \/ \E c \in Clients, r \in RandomDraws, s \in Salts : CodeInsert(c, r, s)
  \/ \E c \in Clients : CodeUpdate(c)
  \/ \E c \in Clients, f \in FlatIdParams :
       Admin(ApiPath(<<"flats", ":flat_id", "revoke-ban">>), RevokeBanRoute(c, f))
  \/ \E c \in Clients : RevokeUpdate(c)
  \/ \E c \in Clients, f \in FlatIdParams, b \in DisabledBodies :
       Admin(ApiPath(<<"flats", ":flat_id", "disable">>), DisableRoute(c, f, b))
  \/ \E c \in Clients : DisableUpdate(c)

CodeOps ==
  \/ \E c \in RequestClients, f \in FlatIdParams, b \in TtlBodies :
       Admin(ApiPath(<<"flats", ":flat_id", "setup-code">>), SetupCodeRoute(c, f, b))
  \/ \E c \in RequestClients, r \in RandomDraws, s \in Salts : CodeInsert(c, r, s)
  \/ \E c \in RequestClients : CodeUpdate(c)
  \/ \E q \in QParams : Admin(ApiPath(<<"flats">>), ListFlats(q))
  \/ \E t \in DbTables : Admin(ApiPath(<<"db", "table", ":table", "delete">>), DbViewerRoute(t))
  \/ \E t \in DbTables :
       Admin(ApiPath(<<"db", "table", ":table", "delete">>), DbDeleteRouteServerJs(t))

ListOps ==
  \/ \E f \in FlatIdParams, n \in Names, t \in Notes :
       Admin(ApiPath(<<"requests">>), CreateRequest(f, n, t))
  \/ \E c \in RequestClients, p \in IdParams :
       Admin(ApiPath(<<"requests", ":id", "approve">>), ApproveRoute(c, p))
  \/ \E c \in RequestClients : ApproveUpsert(c)
  \/ \E c \in RequestClients : ApproveUpdate(c)
  \/ \E q \in QParams : Admin(ApiPath(<<"flats">>), ListFlats(q))

(* express routes ignore the case of the path; req.path keeps it *)
FlatsPaths == { ApiPath(<<"flats">>), <<"ADMIN", "API", "flats">> }

(* the routes SpecAuth serves: path -> handler *)
AuthPaths ==
  { <<"admin", "logout">>, <<"admin">>, ApiPath(<<"requests">>),
    ApiPath(<<"requests", ":id", "reject">>), ApiPath(<<"metrics">>), ApiPath(<<"live">>) }
  \cup FlatsPaths

Handler(path) ==
  IF path = <<"admin", "logout">> THEN Logout
  ELSE IF path = <<"admin">> THEN Dashboard
  ELSE IF path = ApiPath(<<"requests">>)
    THEN \E f \in FlatIdParams, n \in Names, t \in Notes : CreateRequest(f, n, t)
  ELSE IF path = ApiPath(<<"requests", ":id", "reject">>)
    THEN \E c \in RequestClients, p \in IdParams : RejectRoute(c, p)
  ELSE IF path = ApiPath(<<"metrics">>) THEN MetricsRoute(metrics)
  ELSE IF path = ApiPath(<<"live">>) THEN \E c \in RequestClients : LiveRoute(c)
  ELSE \E q \in QParams : ListFlats(q)

Route(cookie, path) == requireAdmin(cookie, path, Handler(path)) /\ UNCHANGED live

(* a few of the answers fetch can settle with *)
AuthResponses ==
  { [status |-> 200, content_type |-> Some(<<"application/json">>), body |-> Some(OkText)],
    [status |-> 200, content_type |-> Some(<<"text/html">>), body |-> Some(HtmlPage)],
    [status |-> 500, content_type |-> Some(<<"application/json">>), body |-> Some(FailText)] }

AuthOps ==
  \/ \E k \in Cookies, path \in AuthPaths : Route(k, path)
  \/ \E c \in RequestClients : RejectUpdate(c)
  \/ \E c \in RequestClients, res \in AuthResponses : LiveFetched(c, res)

LoginOps == \E pw \in Passwords : Login(pw) /\ UNCHANGED live

(* the admin's browser shows the login page while it is logged out *)
AdminLogin == ~session.isAdmin /\ Login(ADMIN_PASSWORD) /\ UNCHANGED live

(* GET /admin/api/live against every answer of the user server *)
ProxyOps ==
  \/ \E c \in Clients : Admin(ApiPath(<<"live">>), LiveRoute(c))
  \/ \E c \in Clients, res \in Responses \cup Rejections : LiveFetched(c, res)

(* A request of SpecLive passes the metrics middleware (ip is req.ip) and  *)
(* then the route; a route other than the metrics endpoint leaves the      *)
(* metrics as the middleware set them.                                     *)
LivePaths == { <<"admin", "logout">>, <<"admin">>, ApiPath(<<"metrics">>) }

LiveHandler(path, m) ==
  IF path = <<"admin", "logout">> THEN Logout /\ metrics' = m
  ELSE IF path = <<"admin">> THEN Dashboard /\ metrics' = m
  ELSE MetricsRoute(m)

Request(ip, cookie, path) ==
  LET m == metricsMiddleware(metrics, ip, clock) IN
  /\ metrics.totalRequests < MaxTraffic
  /\ requireAdmin(cookie, path, LiveHandler(path, m))
  /\ IF req_session(cookie).isAdmin = TRUE THEN TRUE ELSE metrics' = m
  /\ pending' = pending + 1
  /\ recorded' = Append(recorded, clock)
  /\ UNCHANGED monitor
  /\ wire' = << >>
  /\ UNCHANGED <<wsClients, readyState>>

LoginRequest(ip, password) ==
  /\ metrics.totalRequests < MaxTraffic
  /\ Login(password)
  /\ metrics' = metricsMiddleware(metrics, ip, clock)
  /\ pending' = pending + 1
  /\ recorded' = Append(recorded, clock)
  /\ UNCHANGED monitor
  /\ wire' = << >>
  /\ UNCHANGED <<wsClients, readyState>>

LiveOps ==
  \/ \E ip \in IPs, pw \in Passwords : LoginRequest(ip, pw)
  \/ \E ip \in IPs, k \in Cookies, path \in LivePaths : Request(ip, k, path)
  \/ ResFinish
  \/ ResAbort
  \/ \E w \in Peers, k \in Cookies, url \in WsUrls : Upgrade(w, k, url)
  \/ \E w \in Peers : SocketClosing(w)
  \/ \E w \in Peers : SocketClosed(w)
  \/ \E w \in Peers : CloseEvent(w)
  \/ IntervalTick
  \/ Elapse

FlatClients == Clients \ RequestClients

(* the flat routes on a store with two flats: the setup-code route in one *)
(* slot, revoke-ban and disable in the other, time passing                *)
FrameOps ==
  \/ \E c \in RequestClients, f \in FlatIdParams, b \in DefaultTtl :
       Admin(ApiPath(<<"flats", ":flat_id", "setup-code">>), SetupCodeRoute(c, f, b))
  \/ \E c \in RequestClients, r \in RandomDraws, s \in Salts : CodeInsert(c, r, s)
  \/ \E c \in RequestClients : CodeUpdate(c)
  \/ \E c \in FlatClients, f \in FlatIdParams :
       Admin(ApiPath(<<"flats", ":flat_id", "revoke-ban">>), RevokeBanRoute(c, f))
  \/ \E c \in FlatClients : RevokeUpdate(c)
  \/ \E c \in FlatClients, f \in FlatIdParams, b \in DisabledBodies :
       Admin(ApiPath(<<"flats", ":flat_id", "disable">>), DisableRoute(c, f, b))
  \/ \E c \in FlatClients : DisableUpdate(c)

DefaultDisabled == {"absent"}
OneDraw == { <<1, 2, 3, 4, 1, 2, 3, 4>> }

(* the routes that take a flat_id, each spelling of it given to each: the  *)
(* request routes in one slot, the flat routes in the other               *)
SpellingOps ==
  \/ \E f \in FlatIdSpellings, n \in Names, t \in Notes :
       Admin(ApiPath(<<"requests">>), CreateRequest(f, n, t))
  \/ \E c \in RequestClients, p \in IdParams :
       Admin(ApiPath(<<"requests", ":id", "approve">>), ApproveRoute(c, p))
  \/ \E c \in RequestClients : ApproveUpsert(c)
  \/ \E c \in RequestClients : ApproveUpdate(c)
  \/ \E c \in FlatClients, f \in FlatIdSpellings, b \in DefaultTtl :
       Admin(ApiPath(<<"flats", ":flat_id", "setup-code">>), SetupCodeRoute(c, f, b))
  \/ \E c \in FlatClients, r \in OneDraw, s \in Salts : CodeInsert(c, r, s)
  \/ \E c \in FlatClients : CodeUpdate(c)
  \/ \E c \in FlatClients, f \in FlatIdSpellings :
       Admin(ApiPath(<<"flats", ":flat_id", "revoke-ban">>), RevokeBanRoute(c, f))
  \/ \E c \in FlatClients : RevokeUpdate(c)
  \/ \E c \in FlatClients, f \in FlatIdSpellings, b \in DefaultDisabled :
       Admin(ApiPath(<<"flats", ":flat_id", "disable">>), DisableRoute(c, f, b))
  \/ \E c \in FlatClients : DisableUpdate(c)

(* the lifecycle routes, the request routes in one slot and the flat       *)
(* routes in the other, about one request and one setup code, with store   *)
(* commands that fail                                                      *)
FaultOps ==
  \/ \E f \in FlatIdParams, n \in Names, t \in Notes :
       flat_requests = << >> /\ Admin(ApiPath(<<"requests">>), CreateRequest(f, n, t))
  \/ \E c \in RequestClients, p \in IdParams :
       Admin(ApiPath(<<"requests", ":id", "approve">>), ApproveRoute(c, p))
  \/ \E c \in RequestClients : ApproveUpsert(c)
  \/ \E c \in RequestClients : ApproveUpdate(c)
  \/ \E c \in RequestClients, p \in IdParams :
       Admin(ApiPath(<<"requests", ":id", "reject">>), RejectRoute(c, p))
  \/ \E c \in RequestClients : RejectUpdate(c)
  \/ \E c \in FlatClients, f \in FlatIdParams, b \in DefaultTtl :
       /\ setup_codes = << >>
       /\ Admin(ApiPath(<<"flats", ":flat_id", "setup-code">>), SetupCodeRoute(c, f, b))
  \/ \E c \in FlatClients, r \in RandomDraws, s \in Salts : CodeInsert(c, r, s)
  \/ \E c \in FlatClients : CodeUpdate(c)
  \/ \E c \in FlatClients, f \in FlatIdParams :
       Admin(ApiPath(<<"flats", ":flat_id", "revoke-ban">>), RevokeBanRoute(c, f))
  \/ \E c \in FlatClients : RevokeUpdate(c)
  \/ \E c \in FlatClients, f \in FlatIdParams, b \in DisabledBodies :
       Admin(ApiPath(<<"flats", ":flat_id", "disable">>), DisableRoute(c, f, b))
  \/ \E c \in FlatClients : DisableUpdate(c)
  \/ \E c \in Clients, o \in FailureOutcomes : StoreFailure(c, o)

(* SpecRequests .. SpecAuth and SpecProxy follow the store, the session    *)
(* and the responses, and leave the metrics and the WebSockets where they  *)
(* are; those are followed in SpecLive.                                    *)
NextRequests == AdminLogin \/ RequestOps \/ Tick \/ Crash
NextFlats == AdminLogin \/ FlatOps \/ Tick \/ Crash
NextCodes == AdminLogin \/ CodeOps \/ Tick \/ Crash
NextLists == AdminLogin \/ ListOps \/ Tick
NextAuth == LoginOps \/ AuthOps \/ Tick
NextProxy == AdminLogin \/ ProxyOps \/ Tick \/ Crash
NextLive == LiveOps
NextMonitor == (\E s \in MonitorSnapshots : Render(s)) \/ Disconnected
NextFaults == AdminLogin \/ FaultOps
NextApprovals == AdminLogin \/ ApprovalOps \/ Crash
NextFrames == AdminLogin \/ FrameOps \/ Tick
NextSpellings == AdminLogin \/ SpellingOps

SpecRequests == Init /\ [][NextRequests]_vars
SpecFlats == Init /\ [][NextFlats]_vars
SpecCodes == Init /\ [][NextCodes]_vars
SpecLists == Init /\ [][NextLists]_vars
SpecAuth == Init /\ [][NextAuth]_vars
SpecProxy == Init /\ [][NextProxy]_vars
SpecLive == Init /\ [][NextLive]_vars
SpecFaults == Init /\ [][NextFaults]_vars
SpecMonitor == Init /\ [][NextMonitor]_vars
SpecApprovals == Init /\ [][NextApprovals]_vars
SpecFrames == InitBothFlats /\ [][NextFrames]_vars
SpecSpellings == Init /\ [][NextSpellings]_vars

(* SpecProxy with the scheduling the process can count on: time passes.    *)
(* Nothing obliges the user server to answer, and the route sets no timer  *)
(* and passes fetch no signal, so no step of the process follows the       *)
(* fetch until the user server has answered.                               *)
SpecProxyFair == Init /\ [][NextProxy]_vars /\ WF_vars(Tick)

(***************************************************************************)
(* adminApproveRequest run on a store <<flat_requests, flats>>: to its     *)
(* end, and cut off between its two writes.                                *)
(***************************************************************************)
ApproveRun(st, id, now) ==
  LET req == SelectRequest(st.fr, id) IN
  IF req = NULL THEN st
  ELSE [fr |-> UpdateRequestStatus(st.fr, id, "APPROVED", now),
        fl |-> UpsertFlat(st.fl, req[1].flat_id, now)]

ApproveInterrupted(st, id, now) ==
  LET req == SelectRequest(st.fr, id) IN
  IF req = NULL THEN st
  ELSE [fr |-> st.fr, fl |-> UpsertFlat(st.fl, req[1].flat_id, now)]

(***************************************************************************)
(* Properties.                                                             *)
(***************************************************************************)
Terminal(status) == status \in {"APPROVED", "REJECTED"}
Suspension(row) == <<row.strike_count, row.ban_until, row.requires_admin_revoke>>
Credentials(row) == <<row.pin_hash, row.password_hash>>
NoTimestamps(st) ==
  [fr |-> [i \in DOMAIN st.fr |-> [st.fr[i] EXCEPT !.created_at = 0, !.updated_at = 0]],
   fl |-> [f \in DOMAIN st.fl |-> [st.fl[f] EXCEPT !.created_at = 0, !.updated_at = 0]]]

(* C1: once a request is APPROVED or REJECTED, no step changes its status  *)
(* or any other column of its row.                                         *)
C1_TerminalRowsFrozen ==
  [][\A id \in DOMAIN flat_requests :
       Terminal(flat_requests[id].status) => flat_requests'[id] = flat_requests[id]]_vars

(* C2: the approval's two writes are one atomic unit: there is no state in *)
(* which an approval has upserted its Flat and its request is not APPROVED.*)
C2_ApproveWritesAtomic ==
  \A c \in Clients :
    calls[c].pc = "approve_update" => flat_requests[calls[c].id].status = "APPROVED"

(* C3: for a PENDING request, an approval cut off after the Flat upsert    *)
(* leaves the request PENDING; approving again then gives the store an     *)
(* uninterrupted approval gives, timestamps aside: request APPROVED, Flat  *)
(* ACTIVE, suspension columns as before; and approving twice gives what    *)
(* approving once gives.                                                   *)
C3_ApproveRerunIdempotent ==
  \A id \in DOMAIN flat_requests, t1 \in Instants, t2 \in Instants :
    (flat_requests[id].status = "PENDING" /\ t1 <= t2) =>
      LET st == [fr |-> flat_requests, fl |-> flats]
          f == flat_requests[id].flat_id
          cut == ApproveInterrupted(st, id, t1)
          once == ApproveRun(st, id, t1)
          rerun == ApproveRun(cut, id, t2)
          twice == ApproveRun(once, id, t2)
      IN /\ cut.fr[id].status = "PENDING"
         /\ NoTimestamps(rerun) = NoTimestamps(once)
         /\ NoTimestamps(twice) = NoTimestamps(once)
         /\ once.fr[id].status = "APPROVED"
         /\ once.fl[f].status = "ACTIVE"
         /\ f \in DOMAIN flats => Suspension(rerun.fl[f]) = Suspension(flats[f])

(* a crash has cut an approval off after its upsert: no call is in flight, *)
(* a Flat made by an approval exists, and every request for it is PENDING  *)
C3_Witness ==
  /\ \A c \in Clients : Free(c)
  /\ \E id \in DOMAIN flat_requests :
       LET f == flat_requests[id].flat_id IN
       /\ f \in DOMAIN flats
       /\ flats[f].password_hash = NULL
       /\ \A j \in DOMAIN flat_requests :
            flat_requests[j].flat_id = f => flat_requests[j].status = "PENDING"

(* C4: an approveRequest that returns for an id with no row returns        *)
(* REQUEST_NOT_FOUND and has changed no table; and it returns              *)
(* REQUEST_NOT_FOUND for such ids only.                                    *)
C4_ApproveNotFound ==
  [][(sent'.op = "approveRequest" /\ sent'.out # NoOut) =>
       /\ sent'.id \notin DOMAIN flat_requests =>
            (sent'.out = RequestNotFound /\ UNCHANGED store)
       /\ sent'.out = RequestNotFound => sent'.id \notin DOMAIN flat_requests]_vars

C4_Witness ==
  /\ sent.op = "approveRequest"
  /\ sent.out = RequestNotFound
  /\ flat_requests # << >>
  /\ flats # << >>

(* the rows INSERT INTO flats makes carry these values in the columns the  *)
(* claims name                                                             *)
FreshFlat(row) ==
  /\ row.status = "ACTIVE"
  /\ row.strike_count = 0
  /\ row.ban_until = NULL
  /\ row.requires_admin_revoke = FALSE
  /\ row.pin_hash = NULL
  /\ row.password_hash = NULL

(* the step in which call c's Flat upsert executes *)
UpsertStep(c) == calls[c].pc = "approve_upsert" /\ calls'[c].pc = "approve_update"

(* C5: the upsert of an approval whose flat_id has no Flat row adds one    *)
(* row, for that flat_id, ACTIVE with zero strikes, no ban, no admin-      *)
(* revoke flag and no credentials, and touches no other Flat; and when the *)
(* approval returns, its request is APPROVED and its Flat exists.          *)
C5_ApproveCreatesFlat ==
  [][/\ \A c \in Clients :
          (UpsertStep(c) /\ calls[c].flat_id \notin DOMAIN flats) =>
            /\ DOMAIN flats' = DOMAIN flats \cup {calls[c].flat_id}
            /\ FreshFlat(flats'[calls[c].flat_id])
            /\ \A g \in DOMAIN flats : flats'[g] = flats[g]
     /\ (sent'.op = "approveRequest" /\ sent'.out # NoOut /\ sent'.out.ok = TRUE) =>
          /\ flat_requests'[sent'.id].status = "APPROVED"
          /\ flat_requests'[sent'.id].flat_id = sent'.out.flat_id
          /\ sent'.out.flat_id \in DOMAIN flats']_vars

(* an approval has returned and the Flat it made is as it was made *)
C5_Witness ==
  /\ sent.op = "approveRequest"
  /\ sent.out # NoOut
  /\ sent.out.ok = TRUE
  /\ FreshFlat(flats[sent.out.flat_id])
  /\ flats[sent.out.flat_id].created_at = flat_requests[sent.id].updated_at

(* C6: the upsert of an approval whose flat_id has a Flat row sets that    *)
(* row's status to ACTIVE and leaves its strike_count, ban_until,          *)
(* requires_admin_revoke, pin_hash and password_hash as they were; it adds *)
(* no row and touches no other Flat.                                       *)
C6_ApproveKeepsSuspension ==
  [][\A c \in Clients :
       (UpsertStep(c) /\ calls[c].flat_id \in DOMAIN flats) =>
         LET f == calls[c].flat_id IN
         /\ DOMAIN flats' = DOMAIN flats
         /\ flats'[f].status = "ACTIVE"
         /\ Suspension(flats'[f]) = Suspension(flats[f])
         /\ Credentials(flats'[f]) = Credentials(flats[f])
         /\ \A g \in DOMAIN flats \ {f} : flats'[g] = flats[g]]_vars

(* an approval has returned for a Flat that was DISABLED with strikes and *)
(* a ban at boot: it is ACTIVE and still carries them                     *)
C6_Witness ==
  /\ sent.op = "approveRequest"
  /\ sent.out # NoOut
  /\ sent.out.ok = TRUE
  /\ flats[sent.out.flat_id].status = "ACTIVE"
  /\ flats[sent.out.flat_id].strike_count = 2
  /\ flats[sent.out.flat_id].ban_until # NULL
  /\ flats[sent.out.flat_id].requires_admin_revoke

(* C7: POST /requests/:id/approve (for an id that parses) answers 200      *)
(* {ok:true, flat_id} exactly when the request exists and 404 exactly when *)
(* it does not, and the 200 is written only once the Flat is upserted and  *)
(* the request APPROVED.                                                   *)
C7_ApproveAnswer ==
  (sent.op = "approveRequest" /\ sent.status \notin {0, 400}) =>
    IF sent.id \in DOMAIN flat_requests
      THEN /\ sent.status = 200
           /\ sent.body = [ok |-> TRUE, flat_id |-> flat_requests[sent.id].flat_id]
           /\ flat_requests[sent.id].status = "APPROVED"
           /\ flat_requests[sent.id].flat_id \in DOMAIN flats
      ELSE sent.status = 404

(* C8: a rejectRequest (for an id that parses) on an id with no row fails  *)
(* with REQUEST_NOT_FOUND and changes nothing; on an existing request it   *)
(* sets the status to REJECTED and changes no Flat and no SetupCode.       *)
C8_RejectOutcome ==
  [][(sent'.op = "rejectRequest" /\ sent'.status \notin {0, 400}) =>
       IF sent'.id \notin DOMAIN flat_requests
         THEN sent'.status = 404 /\ sent'.body = RequestNotFound /\ UNCHANGED store
         ELSE /\ flat_requests'[sent'.id].status = "REJECTED"
              /\ UNCHANGED <<flats, setup_codes>>]_vars

(* C9: a generateSetupCode that returns for a flat_id with no Flat row     *)
(* returns FLAT_NOT_FOUND (404) and has changed no table; and it returns   *)
(* FLAT_NOT_FOUND for such flat_ids only.                                  *)
C9_SetupCodeFlatNotFound ==
  [][(sent'.op = "generateSetupCode" /\ sent'.out # NoOut) =>
       /\ sent'.flat_id \notin DOMAIN flats =>
            (sent'.out = FlatNotFound /\ sent'.status = 404 /\ UNCHANGED store)
       /\ sent'.out = FlatNotFound => sent'.flat_id \notin DOMAIN flats]_vars

C9_Witness ==
  /\ sent.op = "generateSetupCode"
  /\ sent.out = FlatNotFound
  /\ flats # << >>

(* C10: when a generateSetupCode returns successfully, the Flat it was     *)
(* called for has a null pin_hash.                                         *)
C10_PinClearedOnReturn ==
  (sent.op = "generateSetupCode" /\ sent.status = 200) =>
    /\ sent.flat_id \in DOMAIN flats
    /\ flats[sent.flat_id].pin_hash = NULL

(* a generateSetupCode has returned for a Flat that held a device          *)
(* credential at boot (the boot rows hold a pin_hash and a password_hash)  *)
C10_Witness ==
  /\ sent.op = "generateSetupCode"
  /\ sent.status = 200
  /\ flats[sent.flat_id].password_hash # NULL
  /\ \E i \in DOMAIN setup_codes : setup_codes[i].flat_id = sent.flat_id

(***************************************************************************)
(* Setup codes.                                                            *)
(***************************************************************************)
PossibleCodes == { generateHumanCode(9, r) : r \in RandomDraws }
SetupCodeColumns == {"flat_id", "code_hash", "expires_at", "used_at", "created_at"}
FlatColumns ==
  {"status", "pin_hash", "password_hash", "strike_count", "ban_until",
   "requires_admin_revoke", "created_at", "updated_at", "last_login_at"}
ListedColumns ==
  {"flat_id", "status", "strike_count", "ban_until", "requires_admin_revoke",
   "created_at", "last_login_at"}

(* bcrypt.compare: the code is the one the hash was made of *)
Matches(code, code_hash) == code_hash.digest = <<code_hash.salt, code>>

(* the steps of call c in which its INSERT executes, and in which it returns *)
CodeInsertStep(c) == calls[c].pc = "code_insert" /\ calls'[c].pc = "code_update"
CodeReturnStep(c) ==
  calls[c].pc = "code_update" /\ calls'[c].pc = "idle" /\ sent'.op = "generateSetupCode"

(* C11: no step leaves the plaintext code in the store: every setup_codes  *)
(* row has the five columns of the table and its code_hash is a bcrypt     *)
(* image, not a code, and no flats row gains a column; and a response      *)
(* carries a code only in the step in which the generateSetupCode call     *)
(* that made the code returns, the flat list answering with its seven      *)
(* listed columns.                                                         *)
C11_PlaintextNotStored ==
  [][/\ \A i \in DOMAIN setup_codes' :
          /\ DOMAIN setup_codes'[i] = SetupCodeColumns
          /\ setup_codes'[i].code_hash.alg = "bcrypt"
          /\ setup_codes'[i].code_hash.digest \notin PossibleCodes
     /\ \A f \in DOMAIN flats' : DOMAIN flats'[f] = FlatColumns
     /\ "code" \in DOMAIN sent'.body =>
          \E c \in Clients : CodeReturnStep(c) /\ sent'.body.code = calls[c].code
     /\ sent'.op = "listFlats" =>
          \A i \in DOMAIN sent'.body.rows : DOMAIN sent'.body.rows[i] = ListedColumns]_vars

(* a code has been returned, and the store holds its hash *)
C11_Witness ==
  /\ sent.op = "generateSetupCode"
  /\ sent.status = 200
  /\ sent.body.code \in PossibleCodes
  /\ \E i \in DOMAIN setup_codes :
       setup_codes[i].flat_id = sent.flat_id /\ Matches(sent.body.code, setup_codes[i].code_hash)

(* XXXX-NNNN: the alphabets as the contract words them *)
ShapeLetters ==
  {"A","B","C","D","E","F","G","H","I","J","K","L","M","N","O","P","Q","R","S","T","U",
   "V","W","X","Y","Z"} \ {"I", "O"}
ShapeDigits == {"0","1","2","3","4","5","6","7","8","9"} \ {"0", "1"}
Shape(code) ==
  /\ Len(code) = 9
  /\ \A i \in 1..4 : code[i] \in ShapeLetters
  /\ code[5] = "-"
  /\ \A i \in 6..9 : code[i] \in ShapeDigits

(* draws that put every index of each alphabet at every position *)
CoveringDraws ==
  { [i \in 1..8 |-> IF i <= 4 THEN ((k + 5 * i) % 24) + 1 ELSE ((k + 3 * i) % 8) + 1] :
      k \in 0..23 }

(* C12: the code a generateSetupCode returns, and the code generateHuman-   *)
(* Code(9) makes of every draw of a set that puts every letter and every   *)
(* digit at every position, is four letters of A-Z less I and O, a hyphen, *)
(* and four digits of 2-9: nine characters.                                *)
C12_CodeShape ==
  /\ (sent.op = "generateSetupCode" /\ sent.status = 200) => Shape(sent.out.code)
  /\ \A r \in CoveringDraws : Shape(generateHumanCode(9, r))

(* the code of the last letters and the last digits has been returned *)
C12_Witness ==
  /\ sent.op = "generateSetupCode"
  /\ sent.status = 200
  /\ sent.out.code = <<"Z", "Y", "X", "W", "-", "9", "8", "7", "6">>

(* C13: the code a generateSetupCode returns differs from every code       *)
(* issued before for the same flat: it matches the hash of one row of that *)
(* flat, its own.                                                          *)
C13_CodesDistinct ==
  (sent.op = "generateSetupCode" /\ sent.status = 200) =>
    Cardinality({ i \in DOMAIN setup_codes :
                    /\ setup_codes[i].flat_id = sent.flat_id
                    /\ Matches(sent.out.code, setup_codes[i].code_hash) }) <= 1

(* ttlMinutes bodies that are numbers, and their values *)
NumericTtl == {"1"}
TtlValue(b) == IF b = "1" THEN 1 ELSE 60

(* C14: the INSERT of a generateSetupCode adds one row, for the call's     *)
(* flat, with used_at null and expires_at = created_at + ttlMinutes*60000, *)
(* and touches no other row; the call returns that row's expires_at; and   *)
(* the route hands the operation 60 for a ttlMinutes that is missing or    *)
(* not a number.                                                           *)
C14_SetupCodeExpiry ==
  [][/\ \A c \in Clients : CodeInsertStep(c) =>
          /\ DOMAIN setup_codes' = DOMAIN setup_codes \cup {setup_codes_seq}
          /\ setup_codes_seq \notin DOMAIN setup_codes
          /\ \A i \in DOMAIN setup_codes : setup_codes'[i] = setup_codes[i]
          /\ LET row == setup_codes'[setup_codes_seq] IN
             /\ row.flat_id = calls[c].flat_id
             /\ row.used_at = NULL
             /\ row.created_at = calls[c].now
             /\ row.expires_at = row.created_at + calls[c].ttlMinutes * 60000
     /\ \A c \in Clients : CodeReturnStep(c) =>
          \E i \in DOMAIN setup_codes' :
             /\ Matches(sent'.out.code, setup_codes'[i].code_hash)
             /\ setup_codes'[i].flat_id = sent'.flat_id
             /\ setup_codes'[i].expires_at = sent'.out.expires_at
     /\ \A c \in Clients, f \in FlatIdParams, b \in TtlBodies :
          (SetupCodeRoute(c, f, b) /\ calls'[c].pc = "code_insert") =>
            calls'[c].ttlMinutes = (IF b \in NumericTtl THEN TtlValue(b) ELSE 60)]_vars

(***************************************************************************)
(* Flats.                                                                  *)
(***************************************************************************)
(* row with its updated_at blanked, and with the named columns blanked too *)
LessBan(row) ==
  [row EXCEPT !.ban_until = NULL, !.requires_admin_revoke = FALSE, !.updated_at = 0]
LessStatus(row) == [row EXCEPT !.status = "", !.updated_at = 0]

(* C15: a revokeBan that returns for a flat_id with a Flat row returns ok  *)
(* and leaves that row with ban_until null and requires_admin_revoke       *)
(* false, its other columns (updated_at aside) and every other row as they *)
(* were; one that returns for a flat_id without a row returns              *)
(* FLAT_NOT_FOUND (404) and has changed no table.                          *)
C15_RevokeBanOutcome ==
  [][(sent'.op = "revokeBan" /\ sent'.status # 0) =>
       LET f == sent'.flat_id IN
       IF f \in DOMAIN flats
         THEN /\ sent'.out = [ok |-> TRUE]
              /\ DOMAIN flats' = DOMAIN flats
              /\ flats'[f].ban_until = NULL
              /\ flats'[f].requires_admin_revoke = FALSE
              /\ LessBan(flats'[f]) = LessBan(flats[f])
              /\ \A g \in DOMAIN flats \ {f} : flats'[g] = flats[g]
              /\ UNCHANGED <<flat_requests, setup_codes>>
         ELSE /\ sent'.out = FlatNotFound
              /\ sent'.status = 404
              /\ UNCHANGED store]_vars

(* a revokeBan has returned for the Flat that was banned, with the         *)
(* admin-revoke flag set, at boot (the boot row with two strikes)          *)
C15_Witness ==
  /\ sent.op = "revokeBan"
  /\ sent.status = 200
  /\ flats[sent.flat_id].strike_count = 2
  /\ flats[sent.flat_id].ban_until = NULL
  /\ ~flats[sent.flat_id].requires_admin_revoke

(* the step in which call c's disableFlat returns *)
DisableReturnStep(c) ==
  calls[c].pc = "disable_update" /\ calls'[c].pc = "idle" /\ sent'.op = "disableFlat"

(* C16: a disableFlat(flat_id, disabled) that returns for a flat_id with a *)
(* Flat row leaves that row DISABLED when disabled is true and ACTIVE when *)
(* it is false, its other columns (updated_at aside) and every other row   *)
(* as they were; one that returns for a flat_id without a row returns      *)
(* FLAT_NOT_FOUND (404) and has changed no table.                          *)
C16_DisableOutcome ==
  [][/\ \A c \in Clients : DisableReturnStep(c) =>
          LET f == calls[c].flat_id IN
          /\ f \in DOMAIN flats
          /\ sent'.out = [ok |-> TRUE]
          /\ DOMAIN flats' = DOMAIN flats
          /\ flats'[f].status = (IF calls[c].disabled THEN "DISABLED" ELSE "ACTIVE")
          /\ LessStatus(flats'[f]) = LessStatus(flats[f])
          /\ \A g \in DOMAIN flats \ {f} : flats'[g] = flats[g]
          /\ UNCHANGED <<flat_requests, setup_codes>>
     /\ (sent'.op = "disableFlat" /\ sent'.status # 0) =>
          IF sent'.flat_id \in DOMAIN flats
            THEN \E c \in Clients : DisableReturnStep(c)
            ELSE sent'.out = FlatNotFound /\ sent'.status = 404 /\ UNCHANGED store]_vars

(* a disableFlat with disabled = false has returned for the Flat that was  *)
(* DISABLED at boot (the boot row with two strikes)                        *)
C16_Witness ==
  /\ sent.op = "disableFlat"
  /\ sent.status = 200
  /\ flats[sent.flat_id].strike_count = 2
  /\ flats[sent.flat_id].status = "ACTIVE"

(***************************************************************************)
(* Requests, lists, rows, sessions.                                        *)
(***************************************************************************)
(* C17: a createRequest that returns has added one flat_requests row,      *)
(* under an id no row had, PENDING, for the flat_id it was called with,    *)
(* whatever requests and Flat that flat_id already has, and has changed no *)
(* other request, no Flat and no SetupCode.                                *)
C17_CreateAddsOneRow ==
  [][(sent'.op = "createRequest" /\ sent'.status = 200) =>
       LET id == sent'.out.id IN
       /\ id \notin DOMAIN flat_requests
       /\ DOMAIN flat_requests' = DOMAIN flat_requests \cup {id}
       /\ flat_requests'[id].status = "PENDING"
       /\ flat_requests'[id].flat_id = sent'.flat_id
       /\ \A j \in DOMAIN flat_requests : flat_requests'[j] = flat_requests[j]
       /\ UNCHANGED <<flats, setup_codes>>]_vars

(* a createRequest has returned for a flat_id that has an earlier request  *)
(* and a Flat                                                              *)
C17_Witness ==
  /\ sent.op = "createRequest"
  /\ sent.status = 200
  /\ sent.flat_id \in DOMAIN flats
  /\ flat_requests[sent.out.id].status = "PENDING"
  /\ \E j \in DOMAIN flat_requests :
       j # sent.out.id /\ flat_requests[j].flat_id = sent.flat_id

(* q occurs in s as a run of characters *)
Contains(s, q) ==
  \E i \in 0..(Len(s) - Len(q)) : SubSeq(s, i + 1, i + Len(q)) = q

(* C18: listFlats(q) answers with the flats whose flat_id contains q as a  *)
(* literal run of characters, case aside, each once, in ascending flat_id  *)
(* order.                                                                  *)
C18_ListFlatsSubstring ==
  sent.op = "listFlats" =>
    LET rows == sent.out.rows
        q == sent.flat_id
    IN /\ { rows[i].flat_id : i \in DOMAIN rows } =
            { f \in DOMAIN flats : Contains(toUpperCase(f), toUpperCase(q)) }
       /\ \A i \in DOMAIN rows, j \in DOMAIN rows :
            i < j => (rows[i].flat_id # rows[j].flat_id
                      /\ Ascending(rows[i].flat_id, rows[j].flat_id))

UnderAdminApi(path) == Len(path) >= 2 /\ path[1] = "admin" /\ path[2] = "api"

C21_LoginOnlyByExactPassword ==
  [][ /\ (session'.isAdmin /\ ~session.isAdmin)
           => /\ Login(ADMIN_PASSWORD)
              /\ sent'.op = "login"
      /\ \A pw \in Passwords \ {ADMIN_PASSWORD} :
           (Login(pw) /\ sent'.op = "login")
             => /\ session'.isAdmin = session.isAdmin
                /\ sent'.status = IF pw = "absent" THEN 400 ELSE 401
    ]_vars

(* a login has authenticated the session, some time after boot *)
C21_Witness ==
  /\ session.isAdmin
  /\ sent.op = "login"
  /\ sent.status = 302
  /\ clock > 0

(***************************************************************************)
(* What a step wrote to a peer's socket.                                   *)
(***************************************************************************)
Frames(w) == SelectSeq(wire, LAMBDA f : f.to = w)
Messages(w) == SelectSeq(wire, LAMBDA f : f.to = w /\ "json" \in DOMAIN f.data)
FramesNext(w) == SelectSeq(wire', LAMBDA f : f.to = w)
MessagesNext(w) == SelectSeq(wire', LAMBDA f : f.to = w /\ "json" \in DOMAIN f.data)
Refused(w) ==
  << Frame(w, [raw |-> "HTTP/1.1 401 Unauthorized\r\n\r\n"]), Destroyed(w) >>

(***************************************************************************)
(* C22.  After logout the session record no longer exists: every later     *)
(* HTTP request and every later WebSocket upgrade that presents the        *)
(* session's cookie is treated as unauthenticated (denied by the           *)
(* gatekeeper, refused with 401) until a new successful login.             *)
(***************************************************************************)
C22_LogoutDestroysSession ==
  [][ /\ sent'.op = "logout" => session' = NoSession
      /\ ~session.isAdmin =>
           /\ \A ip \in IPs, path \in LivePaths :
                Request(ip, SessionCookie, path) => sent' = Denied(path)
           /\ \A w \in Peers :
                Upgrade(w, SessionCookie, <<"admin", "ws">>)
                  => /\ FramesNext(w) = Refused(w)
                     /\ wsClients' = wsClients
                     /\ readyState'[w] = "NONE"
      /\ (session'.isAdmin /\ ~session.isAdmin)
           => sent'.op = "login" /\ sent'.status = 302
    ]_vars

(* an upgrade is refused while the session is gone and a peer that         *)
(* subscribed before the logout is still a subscriber                      *)
C22_Witness ==
  /\ ~session.isAdmin
  /\ \E w \in Peers : Frames(w) = Refused(w)
  /\ wsClients # << >>

(***************************************************************************)
(* C23.  A WebSocket upgrade to /admin/ws without an authenticated session *)
(* never completes: the peer is sent the 401 Unauthorized response line,   *)
(* its transport is destroyed, it is not added to the subscriber set and   *)
(* it receives no snapshot; a peer joins the set only under an             *)
(* authenticated session, and snapshots go to members of the set only.     *)
(***************************************************************************)
UnderAdminWs(url) == Len(url) >= 2 /\ url[1] = "admin" /\ url[2] = "ws"

C23_UpgradeNeedsSession ==
  [][ \A w \in Peers :
        /\ \A k \in Cookies, url \in WsUrls :
             (Upgrade(w, k, url) /\ UnderAdminWs(url)
                /\ ~(k = SessionCookie /\ session.isAdmin))
               => /\ FramesNext(w) = Refused(w)
                  /\ MessagesNext(w) = << >>
                  /\ wsClients' = wsClients
                  /\ readyState'[w] = "NONE"
        /\ (~SetHas(wsClients, w) /\ SetHas(wsClients', w)) => session.isAdmin
        /\ MessagesNext(w) # << >> => SetHas(wsClients', w)
    ]_vars

(* a peer without the cookie is refused while the admin is logged in and   *)
(* another peer is subscribed                                              *)
C23_Witness ==
  /\ session.isAdmin
  /\ wsClients # << >>
  /\ \E w \in Peers : Frames(w) = Refused(w) /\ ~SetHas(wsClients, w)

(***************************************************************************)
(* The window has been quiet for 61 seconds: it holds requests recorded    *)
(* within 60 seconds of each other, the last of them 61 seconds ago or     *)
(* more.                                                                   *)
(***************************************************************************)
Recorded == metrics.requestTimestamps
QuietFor61s ==
  /\ Recorded # << >>
  /\ Recorded[Len(Recorded)] - Recorded[1] <= 60000
  /\ clock - Recorded[Len(Recorded)] >= 61000

MetricsAnswered == sent'.op = "metrics" /\ sent'.status = 200
SnapshotsNext == { wire'[i].data.json : i \in { j \in DOMAIN wire' : "json" \in DOMAIN wire'[j].data } }

(***************************************************************************)
(* C24.  After N requests are recorded within 60 seconds and 61 seconds    *)
(* then pass with no further traffic, the rpm that is computed and         *)
(* reported, by the metrics endpoint as well as by a broadcast snapshot,   *)
(* equals 0.                                                               *)
(***************************************************************************)
C24_RpmZeroAfterQuiet ==
  [][ QuietFor61s =>
        /\ MetricsAnswered => sent'.body.rpm = 0
        /\ \A snap \in SnapshotsNext : snap.rpm = 0
    ]_vars

(***************************************************************************)
(* C24, amended.  After such a quiet time the rpm of a snapshot (on a tick *)
(* or at connect) equals 0; the metrics endpoint reports 1, its own        *)
(* request, which the middleware records before the route reads the        *)
(* window.                                                                 *)
(***************************************************************************)
C24_RpmAfterQuiet ==
  [][ QuietFor61s =>
        /\ MetricsAnswered => sent'.body.rpm = 1
        /\ \A snap \in SnapshotsNext : snap.rpm = 0
    ]_vars

(* a snapshot with rpm 0 after two requests and a quiet time *)
C24_Witness ==
  /\ \E i \in DOMAIN wire :
       /\ "json" \in DOMAIN wire[i].data
       /\ wire[i].data.json.rpm = 0
       /\ wire[i].data.json.totalRequests = 2
  /\ metrics.requestTimestamps = << >>
  /\ clock >= 61000

(***************************************************************************)
(* C25.  On every broadcast the same serialized snapshot is sent exactly   *)
(* once to every subscriber whose transport is OPEN and to no subscriber   *)
(* whose transport is closing or closed; a subscriber that is not OPEN     *)
(* neither fails the broadcast nor keeps it from the open subscribers.     *)
(***************************************************************************)
Broadcasting == IntervalTick /\ wsClients # << >>

C25_BroadcastToOpenOnly ==
  [][ Broadcasting =>
        /\ \A w \in Peers :
             IF SetHas(wsClients, w) /\ readyState[w] = "OPEN"
               THEN Len(FramesNext(w)) = 1 /\ Len(MessagesNext(w)) = 1
               ELSE FramesNext(w) = << >>
        /\ \A i, j \in DOMAIN wire' : wire'[i].data = wire'[j].data
        /\ \A snap \in SnapshotsNext : snap.ts = clock /\ snap.viewers = Len(wsClients)
    ]_vars

(* a broadcast has reached the first subscriber while the second one's     *)
(* transport is closing or closed                                          *)
C25_Witness ==
  /\ Len(wsClients) = 2
  /\ readyState[wsClients[1]] = "OPEN"
  /\ readyState[wsClients[2]] \in {"CLOSING", "CLOSED"}
  /\ Len(Messages(wsClients[1])) = 1
  /\ Len(wire) = 1

(***************************************************************************)
(* C26.  A newly connected subscriber is sent exactly one snapshot at      *)
(* connect time, before any tick broadcast reaches it, and that snapshot's *)
(* viewers count already includes the new subscriber.                      *)
(***************************************************************************)
Joins(w) == ~SetHas(wsClients, w) /\ SetHas(wsClients', w)

C26_SnapshotAtConnect ==
  [][ \A w \in Peers :
        /\ Joins(w) =>
             /\ Len(FramesNext(w)) = 1
             /\ Len(MessagesNext(w)) = 1
             /\ Len(wire') = 1
             /\ MessagesNext(w)[1].data.json.viewers = Len(wsClients) + 1
             /\ MessagesNext(w)[1].data.json.ts = clock
             /\ readyState'[w] = "OPEN"
        /\ (~SetHas(wsClients, w) /\ MessagesNext(w) # << >>) => Joins(w)
    ]_vars

(* the second subscriber has just connected and been told of two viewers *)
C26_Witness ==
  /\ Len(wsClients) = 2
  /\ Len(wire) = 1
  /\ Len(Messages(wsClients[2])) = 1
  /\ Messages(wsClients[2])[1].data.json.viewers = 2
  /\ readyState[wsClients[1]] = "OPEN"

(***************************************************************************)
(* The window without its entries older than 60 seconds.                   *)
(***************************************************************************)
Within60s(ts, now) == SelectSeq(ts, LAMBDA t : t >= now - 60000)

(* a step that reads the window or appends to it *)
ReadsOrAppends ==
  \/ metrics'.totalRequests # metrics.totalRequests
  \/ MetricsAnswered
  \/ SnapshotsNext # {}

(***************************************************************************)
(* C27.  On every tick a snapshot is computed and broadcast if and only if *)
(* at least one subscriber is in the subscriber set; with zero subscribers *)
(* a tick sends nothing and computes nothing, and the window stays         *)
(* prunable: the next read (metrics endpoint, snapshot) or append drops    *)
(* every entry older than 60 seconds and no other.                         *)
(***************************************************************************)
C27_TickBroadcastsIffSubscribers ==
  [][ /\ IntervalTick =>
           IF wsClients # << >>
             THEN /\ metrics'.requestTimestamps = Within60s(Recorded, clock)
                  /\ \A w \in Peers :
                       (SetHas(wsClients, w) /\ readyState[w] = "OPEN")
                         => /\ Len(MessagesNext(w)) = 1
                            /\ MessagesNext(w)[1].data.json.ts = clock
                            /\ MessagesNext(w)[1].data.json.rpm = Len(Within60s(Recorded, clock))
             ELSE /\ wire' = << >>
                  /\ metrics' = metrics
      /\ ReadsOrAppends =>
           \A i \in DOMAIN metrics'.requestTimestamps :
             metrics'.requestTimestamps[i] >= clock - 60000
    ]_vars

(* a tick has told two subscribers of a window it pruned from two entries  *)
(* to one                                                                  *)
C27_Witness ==
  /\ Len(wsClients) = 2
  /\ Len(wire) = 2
  /\ \A i \in DOMAIN wire :
       /\ "json" \in DOMAIN wire[i].data
       /\ wire[i].data.json.rpm = 1
       /\ wire[i].data.json.totalRequests = 2

(***************************************************************************)
(* A content-type header declares JSON when its media type, whatever its   *)
(* letter case, is application/json; what follows the media type is a      *)
(* parameter.                                                              *)
(***************************************************************************)
ParameterPieces == {"; charset=utf-8"}
IsJsonType(header) ==
  /\ header # NULL
  /\ LowerPiece(header[1][1]) = "application/json"
  /\ \A i \in 2..Len(header[1]) : header[1][i] \in ParameterPieces

BodyText(res) == IF res.body = NULL THEN << >> ELSE res.body[1]
IsPrefix(s, t) == Len(s) <= Len(t) /\ s = SubSeq(t, 1, Len(s))

(***************************************************************************)
(* C28.  When the upstream response's content type is not JSON, the        *)
(* Snapshot Proxy fails with an error that begins BAD_SNAPSHOT_RESPONSE    *)
(* and carries the HTTP status and the first 120 characters of the body    *)
(* at most, and JSON parsing of the body is never attempted, whatever the  *)
(* HTTP status.                                                            *)
(***************************************************************************)
C28_NotJsonIsBadSnapshot ==
  [][ \A c \in Clients, res \in Responses :
        (LiveFetched(c, res) /\ ~IsJsonType(res.content_type))
          => /\ "thrown" \in DOMAIN sent'.out
             /\ sent'.out.json = FALSE
             /\ LET message == sent'.out.thrown
                    excerpt == SubSeq(message, 4, Len(message))
                IN /\ Len(message) >= 3
                   /\ message[1] = "BAD_SNAPSHOT_RESPONSE ("
                   /\ message[2] = ToString(res.status)
                   /\ Len(excerpt) <= 120
                   /\ IsPrefix(excerpt, BodyText(res))
                   /\ Len(excerpt) = 120 \/ excerpt = BodyText(res)
             /\ sent'.status = 502
    ]_vars

(***************************************************************************)
(* The payload of a response that is JSON: the header declares JSON and    *)
(* the body is a JSON text.  A payload has an error string when its error  *)
(* is a string that is not empty.                                          *)
(***************************************************************************)
IsJson(res) ==
  /\ IsJsonType(res.content_type)
  /\ res.body # NULL
  /\ JSON_parse(res.body[1]) # NULL
Payload(res) == JSON_parse(res.body[1])[1]
Success(status) == status \in 200..299
DeclaresFailure(data) == "ok" \in DOMAIN data /\ data.ok = FALSE
HasErrorString(data) == "error" \in DOMAIN data /\ data.error # << >>

GoodSnapshot(res) ==
  /\ "rejected" \notin DOMAIN res
  /\ IsJson(res)
  /\ Success(res.status)
  /\ ~DeclaresFailure(Payload(res))

(***************************************************************************)
(* C30.  GET /live answers {ok:true, snap} with snap the upstream payload  *)
(* unchanged exactly when the upstream answered a success status with JSON *)
(* not declaring ok:false; every other outcome (non-JSON body, error       *)
(* status, ok:false, unparsable JSON, network failure) is answered 502     *)
(* with ok:false and an error string; the store is unchanged either way.   *)
(***************************************************************************)
C30_LiveAnswer ==
  [][ \A c \in Clients :
        /\ LiveRoute(c) => UNCHANGED store
        /\ \A res \in Responses \cup Rejections :
             LiveFetched(c, res)
               => /\ UNCHANGED store
                  /\ IF GoodSnapshot(res)
                       THEN /\ sent'.status = 200
                            /\ sent'.body = [ok |-> TRUE, snap |-> Payload(res)]
                       ELSE /\ sent'.status = 502
                            /\ "snap" \notin DOMAIN sent'.body
                            /\ sent'.body.ok = FALSE
                            /\ sent'.body.error_message # << >>
    ]_vars

(***************************************************************************)
(* C31: every GET /admin/api/live call is eventually answered (200 or      *)
(* 502), also when the user server never answers: a call that waits for    *)
(* fetch leads to the call having returned.                                *)
(***************************************************************************)
C31_LiveEventuallyAnswered ==
  \A c \in Clients : (calls[c].pc = "live_fetch") ~> (calls[c].pc = "idle")

(***************************************************************************)
(* C32: when a store command fails while a lifecycle route is being        *)
(* handled, the caller is answered 500 and the process keeps running: the  *)
(* calls in flight in the other slots are where they were.                 *)
(***************************************************************************)
C32_StoreFailureIsInternal ==
  [][\A c \in Clients, o \in FailureOutcomes :
       StoreFailure(c, o) =>
         /\ sent'.status = 500
         /\ \A d \in Clients \ {c} : calls'[d] = calls[d]]_vars

(* the requests recorded with a timestamp in [t - 60000, t] *)
RecordedIn(history, t) == SelectSeq(history, LAMBDA r : r >= t - 60000 /\ r <= t)
NonDecreasing(ts) == \A i, j \in DOMAIN ts : i <= j => ts[i] <= ts[j]

(* a step that prunes the window: the middleware, the metrics endpoint, a  *)
(* snapshot built at connect or on a tick                                  *)
Prunes ==
  \/ metrics'.totalRequests # metrics.totalRequests
  \/ MetricsAnswered
  \/ SnapshotsNext # {}
  \/ IntervalTick /\ wsClients # << >>

(***************************************************************************)
(* C33.  Every rpm reported at time t, by the metrics endpoint or in a     *)
(* snapshot, is the number of requests recorded with a timestamp in        *)
(* [t - 60000, t].  The window is in non-decreasing order, and right after *)
(* a prune at time t it holds exactly the recorded entries that are not    *)
(* older than t - 60000: none older, and none of those lost.               *)
(***************************************************************************)
C33_RpmIsTrailingCount ==
  [][ /\ NonDecreasing(metrics'.requestTimestamps)
      /\ MetricsAnswered => sent'.body.rpm = Len(RecordedIn(recorded', clock'))
      /\ \A snap \in SnapshotsNext : snap.rpm = Len(RecordedIn(recorded', snap.ts))
      /\ Prunes => metrics'.requestTimestamps = RecordedIn(recorded', clock')
    ]_vars

(* the metrics endpoint reports 2 for a request at the cutoff and its own, *)
(* in a window that has lost nothing                                       *)
C33_Witness ==
  /\ sent.op = "metrics"
  /\ sent.status = 200
  /\ sent.body.rpm = 2
  /\ recorded = <<0, 60000>>
  /\ clock = 60000
  /\ metrics.requestTimestamps = recorded

(***************************************************************************)
(* C34.  inFlight is never negative and equals the number of requests that *)
(* have entered the metrics middleware and have not ended, a request whose *)
(* connection the client closed before the response finished having ended  *)
(* too; once every request has ended, inFlight is 0.                       *)
(***************************************************************************)
C34_InFlightCountsOpenRequests ==
  /\ metrics.inFlight >= 0
  /\ metrics.inFlight = pending

(* the peers whose upgrade has completed and whose close event has not fired *)
Connected(rs) == { w \in Peers : rs[w] # "NONE" }

(***************************************************************************)
(* C35.  The subscriber set holds exactly the subscribers whose upgrade    *)
(* has completed and whose close event has not fired yet, each once.  It   *)
(* changes only when an upgrade completes (the newcomer is added) and when *)
(* the close event of a member fires (that member is removed).  The        *)
(* viewers figure of every snapshot is the size of the set, and a snapshot *)
(* is sent to members only: none reaches a subscriber after its close      *)
(* event.                                                                  *)
(***************************************************************************)
C35_SubscriberSet ==
  [][ /\ \A w \in Peers : SetHas(wsClients', w) <=> w \in Connected(readyState')
      /\ Len(wsClients') = Cardinality(Connected(readyState'))
      /\ wsClients' # wsClients =>
           \E w \in Peers :
             \/ /\ \E k \in Cookies, url \in WsUrls : Upgrade(w, k, url)
                /\ wsClients' = Append(wsClients, w)
             \/ /\ CloseEvent(w)
                /\ SetHas(wsClients, w)
                /\ wsClients' = SetDelete(wsClients, w)
      /\ \A snap \in SnapshotsNext : snap.viewers = Len(wsClients')
      /\ \A w \in Peers : MessagesNext(w) # << >> => SetHas(wsClients', w)
    ]_vars

(* a subscriber whose transport is closed and whose close event has not    *)
(* fired is still in the set and counted: the other one is told of two     *)
(* viewers                                                                 *)
C35_Witness ==
  /\ wsClients = <<"w1", "w2">>
  /\ readyState["w1"] = "CLOSED"
  /\ readyState["w2"] = "OPEN"
  /\ Len(wire) = 1
  /\ Len(Messages("w2")) = 1
  /\ Messages("w2")[1].data.json.viewers = 2

(* the step destroys the admin session *)
SessionDestroyed == session.isAdmin /\ ~session'.isAdmin

(***************************************************************************)
(* C36.  The session is checked at upgrade time only.  A subscriber joins  *)
(* the set only through an upgrade that carries the cookie of a session    *)
(* that is authenticated at that moment.  Destroying the session           *)
(* afterwards (logout) removes no subscriber and closes no transport, and  *)
(* every tick, whatever the session has become, sends the snapshot to      *)
(* every member whose transport is open: a subscriber is dropped by its    *)
(* own close event only.                                                   *)
(***************************************************************************)
C36_SessionCheckedAtUpgradeOnly ==
  [][ /\ \A w \in Peers :
           Joins(w) =>
             /\ session.isAdmin
             /\ \E url \in WsUrls : Upgrade(w, SessionCookie, url)
      /\ SessionDestroyed => wsClients' = wsClients /\ readyState' = readyState
      /\ IntervalTick =>
           \A w \in Peers :
             (SetHas(wsClients, w) /\ readyState[w] = "OPEN") => Len(MessagesNext(w)) = 1
      /\ \A w \in Peers :
           (SetHas(wsClients, w) /\ ~SetHas(wsClients', w)) => CloseEvent(w)
    ]_vars

(* the session is gone (the admin has logged out) and a tick has sent the  *)
(* snapshot to the subscriber that joined under it                         *)
C36_Witness ==
  /\ ~session.isAdmin
  /\ wsClients = <<"w1">>
  /\ readyState["w1"] = "OPEN"
  /\ sent = Nothing
  /\ Len(Messages("w1")) = 1
  /\ Messages("w1")[1].data.json.totalRequests = 2

(***************************************************************************)
(* C37.  After the dashboard has rendered a snapshot, whatever it rendered *)
(* before: each of the three alerts on display is the level of the value   *)
(* on display beside it, taken with >= against the thresholds (CPU 70/90   *)
(* and RAM 70/85 in hundredths, request rate 120/240 per minute), and the  *)
(* banner's level is the highest of the three: crit if any alert is crit,  *)
(* else warn if any is warn, else ok.                                      *)
(***************************************************************************)
LevelOf(value, warn, crit) ==
  IF value >= crit THEN "crit" ELSE IF value >= warn THEN "warn" ELSE ""
Highest(levels) ==
  IF "crit" \in levels THEN "crit" ELSE IF "warn" \in levels THEN "warn" ELSE "ok"
C37_BannerIsHighestAlert ==
  [][~Disconnected =>
       /\ monitor'.cpuAlert.level = LevelOf(monitor'.cpuBar, 70, 90)
       /\ monitor'.ramAlert.level = LevelOf(monitor'.ramBar, 70, 85)
       /\ monitor'.rpmAlert.level = LevelOf(monitor'.rpmText[1], 120, 240)
       /\ monitor'.status.level =
            Highest({monitor'.cpuAlert.level, monitor'.ramAlert.level,
                     monitor'.rpmAlert.level})]_vars
(* the RAM use is exactly at its warn threshold and nothing else is at     *)
(* one: the RAM alert and the banner both say warn                         *)
C37_Witness ==
  /\ monitor.ramText = <<70>>
  /\ monitor.cpuBar = 69
  /\ monitor.rpmText = <<119>>
  /\ monitor.ramAlert.level = "warn"
  /\ monitor.cpuAlert.level = ""
  /\ monitor.rpmAlert.level = ""
  /\ monitor.status = setStatus("warn", "WARNING: System load rising", "!")

(***************************************************************************)
(* C38.  Every FlatRequest whose status is APPROVED has a Flat row with    *)
(* its flat_id: whenever a step leaves a request APPROVED, the Flat was    *)
(* already there before the step and is there after it, and no step        *)
(* removes a Flat, however the approvals, a rejection and a process        *)
(* failure interleave.                                                     *)
(***************************************************************************)
C38_ApprovedHasFlat ==
  [][/\ \A i \in DOMAIN flat_requests' :
          flat_requests'[i].status = "APPROVED" =>
            /\ flat_requests'[i].flat_id \in DOMAIN flats
            /\ flat_requests'[i].flat_id \in DOMAIN flats'
     /\ DOMAIN flats \subseteq DOMAIN flats']_vars
(* a request for a flat that did not exist at boot is APPROVED and its     *)
(* Flat exists, while another approval of the same request is still        *)
(* between its upsert and its update                                       *)
C38_Witness ==
  /\ 1 \in DOMAIN flat_requests
  /\ flat_requests[1].status = "APPROVED"
  /\ flat_requests[1].flat_id = <<"B", "2">>
  /\ flat_requests[1].flat_id \in DOMAIN flats
  /\ \E c \in Clients : calls[c].pc = "approve_update" /\ calls[c].id = 1

(***************************************************************************)
(* C39.  Every store command of generateSetupCode, revokeBan and           *)
(* disableFlat changes, in flats, only the row of the flat_id the          *)
(* operation was called with, and in that row only the operation's own     *)
(* columns (pin_hash; ban_until and requires_admin_revoke; status) and      *)
(* updated_at: strike_count, the other suspension and credential columns,  *)
(* every other Flat, every FlatRequest and every setup_codes row that was  *)
(* already there stay as they were, and no Flat is added or removed.       *)
(***************************************************************************)
FlatPcs == {"code_insert", "code_update", "revoke_update", "disable_update"}
LessOwn(pc, row) ==
  CASE pc = "code_update" -> [row EXCEPT !.pin_hash = NULL, !.updated_at = 0]
    [] pc = "revoke_update" -> LessBan(row)
    [] pc = "disable_update" -> LessStatus(row)
    [] OTHER -> row
C39_FlatOperationsFrame ==
  [][\A c \in Clients :
       (calls[c].pc \in FlatPcs /\ calls'[c] # calls[c]) =>
         /\ flat_requests' = flat_requests
         /\ \A i \in DOMAIN setup_codes :
              i \in DOMAIN setup_codes' /\ setup_codes'[i] = setup_codes[i]
         /\ DOMAIN flats' = DOMAIN flats
         /\ \A f \in DOMAIN flats :
              IF f = calls[c].flat_id
                THEN LessOwn(calls[c].pc, flats'[f]) = LessOwn(calls[c].pc, flats[f])
                ELSE flats'[f] = flats[f]]_vars
(* the flat that was banned, struck twice and disabled at boot has had a   *)
(* setup code generated, its ban revoked and its status set back to        *)
(* ACTIVE: its strikes and its password are as at boot, and so is the      *)
(* whole row of the other flat                                             *)
C39_Witness ==
  /\ <<"A", "1">> \in DOMAIN flats
  /\ LET row == flats[<<"A", "1">>] IN
       /\ row.status = "ACTIVE"
       /\ row.pin_hash = NULL
       /\ row.ban_until = NULL
       /\ row.requires_admin_revoke = FALSE
       /\ row.strike_count = 2
       /\ row.password_hash = Some("pw")
       /\ row.updated_at = 1
  /\ <<"B", "2">> \in DOMAIN flats
  /\ flats[<<"B", "2">>] \in BootFlatRows
  /\ DOMAIN setup_codes = {1}
  /\ \A c \in Clients : calls[c].pc = "idle"

(***************************************************************************)
(* C40.  Every flat_id the routes hand to the store is in normal form: no  *)
(* white space at either end and no lower-case letter.  So is every        *)
(* flat_id in flat_requests, flats and setup_codes, and in the calls under *)
(* way; no two Flats differ only in letter case or surrounding white       *)
(* space; and a setup code's flat_id is the key of a Flat.                 *)
(***************************************************************************)
InNormalForm(s) ==
  /\ s # <<>> => ~IsSpace(s[1]) /\ ~IsSpace(s[Len(s)])
  /\ \A i \in 1..Len(s) : s[i] \notin {"a", "b"}
StoredFlatIds ==
  { flat_requests[i].flat_id : i \in DOMAIN flat_requests }
    \cup DOMAIN flats
    \cup { setup_codes[i].flat_id : i \in DOMAIN setup_codes }
C40_FlatIdsInNormalForm ==
  /\ \A f \in StoredFlatIds : InNormalForm(f)
  /\ \A c \in Clients : InNormalForm(calls[c].flat_id)
  /\ \A f, g \in DOMAIN flats : toUpperCase(trim(f)) = toUpperCase(trim(g)) => f = g
  /\ \A i \in DOMAIN setup_codes : setup_codes[i].flat_id \in DOMAIN flats
(* no flat at boot; requests for A1 and B2, each spelt otherwise, were     *)
(* approved, and a setup code was generated for each: two Flats, A1 and    *)
(* B2, and each code names one of them                                     *)
C40_Witness ==
  /\ DOMAIN flats = { <<"A", "1">>, <<"B", "2">> }
  /\ DOMAIN flat_requests = {1, 2}
  /\ flat_requests[1].flat_id = <<"A", "1">>
  /\ flat_requests[2].flat_id = <<"B", "2">>
  /\ \A i \in DOMAIN flat_requests : flat_requests[i].status = "APPROVED"
  /\ DOMAIN setup_codes = {1, 2}
  /\ setup_codes[1].flat_id = <<"B", "2">>
  /\ setup_codes[2].flat_id = <<"A", "1">>
  /\ flats[<<"A", "1">>].created_at = 0
  /\ flats[<<"A", "1">>].password_hash = NULL

=========================================================================
